---- MODULE Spec2Model ----
(***************************************************************************)
(* Verification model of the mtf_breakout strategy: indicators, zone       *)
(* detection, exit evaluation, trend permission, the backtest replay and   *)
(* the live per-symbol watchers.                                           *)
(*                                                                         *)
(* Number representation.  Prices are integers (ticks).  Fractional        *)
(* settings (0.15, 0.55) are held in hundredths, and the ATR is held in    *)
(* hundredths of a tick (fixed point, unit 1/Scale).  An Optional[float]   *)
(* is <<>> (None / NaN) or <<x>>; an Optional record likewise.             *)
(***************************************************************************)
EXTENDS Integers, Sequences, FiniteSets, TLC

VARIABLES
    fn_in,      \* pure-function checks: the arguments of the call
    fn_out,     \* pure-function checks: None before the call, Some(result) after
    mode,       \* "fn" | "backtest" | "live": which entry point runs
    settings,   \* Settings fields read from the environment that vary here
    market,     \* the candles the data source holds: one series for the
                \* backtest, one series per symbol for the monitor
    bt,         \* Backtester.run: its locals and Backtester.trades
    live        \* Monitor: the clock, max_positions_ref and the watcher pool

vars == <<fn_in, fn_out, mode, settings, market, bt, live>>

\* ------------------------------------------------------------------ values

Scale == 10 * 10

None == <<>>

Some(x) == <<x>>

Val(o) == o[1]

Max2(a, b) == IF a >= b THEN a ELSE b

Min2(a, b) == IF a <= b THEN a ELSE b

Abs(a) == IF a >= 0 THEN a ELSE 0 - a

\* ---------------------------------------------------------------- settings

\* Settings.dwell_bars (DWELL_BARS; 18 by default), kept small here
dwell_bars == 4

\* Settings.touch_separation_bars
touch_separation_bars == 3

\* Settings.touch_buffer_frac = 0.15, in hundredths
touch_buffer_frac == 15

\* Settings.atr_tight_mult = 0.55, in hundredths
atr_tight_mult == 55

\* Settings.breakout_buffer_frac = 0.15 by default, in hundredths
breakout_buffer_frac == 15

\* detect_zone: minimum number of bars of the series
MinZoneBars == 50

\* atr(df, period=14)
AtrPeriod == 14

\* ------------------------------------------------------------ indicators.py

\* true_range(df) at row k (1-based).  Row 1 has no previous close: the two
\* |.. - prev_close| terms are NaN and max(axis=1) skips them.
true_range(df, k) ==
    LET b == df[k]
        hl == b.high - b.low
    IN  IF k = 1 THEN hl
        ELSE LET pc == df[k - 1].close
             IN  Max2(hl, Max2(Abs(b.high - pc), Abs(b.low - pc)))

\* tr.ewm(span=period, adjust=False).mean(), in 1/Scale ticks:
\* y_1 = x_1, y_k = (1 - a) y_(k-1) + a x_k with a = 2 / (period + 1).
EwmStep(prev, df, k, period) ==
    ((period - 1) * prev + 2 * true_range(df, k) * Scale) \div (period + 1)

\* the recurrence applied to rows lo..hi in order, starting from y; the range
\* is split in halves to keep the evaluation shallow
RECURSIVE EwmFold(_, _, _, _, _)
EwmFold(y, df, lo, hi, period) ==
    IF lo > hi THEN y
    ELSE IF lo = hi THEN EwmStep(y, df, lo, period)
    ELSE LET mid == (lo + hi) \div 2
             left == EwmFold(y, df, lo, mid, period)
         IN  \* a mean of true ranges is never negative: the test only makes
             \* the first half be evaluated before the second
             IF left < 0 THEN left ELSE EwmFold(left, df, mid + 1, hi, period)

EwmTR(df, k, period) == EwmFold(true_range(df, 1) * Scale, df, 2, k, period)

\* atr(df).iloc[k-1]: min_periods=period leaves rows with fewer than period
\* observations undefined (NaN).
atr(df, k) ==
    IF k < AtrPeriod THEN None ELSE Some(EwmTR(df, k, AtrPeriod))


\* series.ewm(span=period, adjust=False).mean() up to row k of a series of
\* prices, in 1/Scale ticks
RECURSIVE EwmPriceFold(_, _, _, _, _)
EwmPriceFold(y, series, lo, hi, period) ==
    IF lo > hi THEN y
    ELSE IF lo = hi
      THEN ((period - 1) * y + 2 * series[lo] * Scale) \div (period + 1)
    ELSE LET mid == (lo + hi) \div 2
             left == EwmPriceFold(y, series, lo, mid, period)
         IN  \* a mean of prices is never negative: the test only makes the
             \* first half be evaluated before the second
             IF left < 0 THEN left
             ELSE EwmPriceFold(left, series, mid + 1, hi, period)

EwmPrices(series, k, period) ==
    EwmPriceFold(series[1] * Scale, series, 2, k, period)

\* ema(series, period).iloc[k-1]: min_periods=period leaves the rows with
\* fewer than period observations undefined (NaN)
ema(series, k, period) ==
    IF k < period THEN None ELSE Some(EwmPrices(series, k, period))

\* ----------------------------------------------------------------- pivots.py

MaxOver(S) == CHOOSE x \in S : \A y \in S : x >= y

MinOver(S) == CHOOSE x \in S : \A y \in S : x <= y

\* swing_highs with the window clipped at the end of the series instead of
\* stopping right bars before it: a bar is reported before it is confirmed
MutSwingHighsUnconfirmed(df, left, right) ==
    {i \in left..(Len(df) - 1) :
        df[i + 1].high =
            MaxOver({df[j + 1].high :
                        j \in (i - left)..Min2(i + right, Len(df) - 1)})}

\* swing_highs(df, left, right): the 0-based rows i in range(left, len - right)
\* whose high equals the maximum high of rows i-left .. i+right
swing_highs(df, left, right) ==
    {i \in left..(Len(df) - right - 1) :
        df[i + 1].high = MaxOver({df[j + 1].high : j \in (i - left)..(i + right)})}

swing_lows(df, left, right) ==
    {i \in left..(Len(df) - right - 1) :
        df[i + 1].low = MinOver({df[j + 1].low : j \in (i - left)..(i + right)})}

\* --------------------------------------------------------------- resample.py

\* bars of the base interval per bucket: 1h, 4h, 1D, 1W of a 5-minute series;
\* a month ("MS") is taken at its shortest, 28 days
BarsPerBucket(timeframe) ==
    IF timeframe = "1h" THEN 12
    ELSE IF timeframe = "4h" THEN 48
    ELSE IF timeframe = "1D" THEN 288
    ELSE IF timeframe = "1W" THEN 7 * 288
    ELSE 28 * 288

\* right-closed, right-labelled bucket of timestamp t (in base intervals)
BucketOf(t, n) == (t + n - 1) \div n

\* resample_ohlcv(df, timeframe) for a gap-free series whose first row has
\* timestamp t0: one row (high = max, low = min, close = last) per bucket
\* that holds a bar
resample_ohlcv(df, t0, timeframe) ==
    IF Len(df) = 0 THEN <<>>
    ELSE LET n == BarsPerBucket(timeframe)
             first == BucketOf(t0, n)
             last == BucketOf(t0 + Len(df) - 1, n)
             rows(b) == {k \in 1..Len(df) : BucketOf(t0 + k - 1, n) = b}
         IN  [j \in 1..(last - first + 1) |->
                 LET ks == rows(first + j - 1)
                 IN  [high |-> MaxOver({df[k].high : k \in ks}),
                      low |-> MinOver({df[k].low : k \in ks}),
                      close |-> df[MaxOver(ks)].close]]

\* ------------------------------------------------------------------ exits.py

ExitDecision(exit_now, reason, exit_price) ==
    [exit_now |-> exit_now, reason |-> reason, exit_price |-> exit_price]

MutEvaluateExitTargetsFirst(side, bar, sl_price, t1, t2) ==
    IF side = "LONG" /\ t2 # None /\ bar.high >= Val(t2)
      THEN ExitDecision(TRUE, "T2", t2)
    ELSE IF side = "LONG" /\ t1 # None /\ bar.high >= Val(t1)
      THEN ExitDecision(TRUE, "T1", t1)
    ELSE IF side = "SHORT" /\ t2 # None /\ bar.low <= Val(t2)
      THEN ExitDecision(TRUE, "T2", t2)
    ELSE IF side = "SHORT" /\ t1 # None /\ bar.low <= Val(t1)
      THEN ExitDecision(TRUE, "T1", t1)
    ELSE IF side = "LONG" /\ bar.low <= sl_price
      THEN ExitDecision(TRUE, "SL", Some(sl_price))
    ELSE IF side = "SHORT" /\ bar.high >= sl_price
      THEN ExitDecision(TRUE, "SL", Some(sl_price))
    ELSE ExitDecision(FALSE, "None", None)

\* evaluate_exit with T1 tested before T2
MutEvaluateExitNearestFirst(side, bar, sl_price, t1, t2) ==
    IF side = "LONG" /\ bar.low <= sl_price
      THEN ExitDecision(TRUE, "SL", Some(sl_price))
    ELSE IF side = "SHORT" /\ bar.high >= sl_price
      THEN ExitDecision(TRUE, "SL", Some(sl_price))
    ELSE IF side = "LONG"
      THEN IF t1 # None /\ bar.high >= Val(t1)
             THEN ExitDecision(TRUE, "T1", t1)
           ELSE IF t2 # None /\ bar.high >= Val(t2)
             THEN ExitDecision(TRUE, "T2", t2)
           ELSE ExitDecision(FALSE, "None", None)
    ELSE IF t1 # None /\ bar.low <= Val(t1)
           THEN ExitDecision(TRUE, "T1", t1)
         ELSE IF t2 # None /\ bar.low <= Val(t2)
           THEN ExitDecision(TRUE, "T2", t2)
         ELSE ExitDecision(FALSE, "None", None)

evaluate_exit(side, bar, sl_price, t1, t2) ==
    IF side = "LONG" /\ bar.low <= sl_price
      THEN ExitDecision(TRUE, "SL", Some(sl_price))
    ELSE IF side = "SHORT" /\ bar.high >= sl_price
      THEN ExitDecision(TRUE, "SL", Some(sl_price))
    ELSE IF side = "LONG"
      THEN IF t2 # None /\ bar.high >= Val(t2)
             THEN ExitDecision(TRUE, "T2", t2)
           ELSE IF t1 # None /\ bar.high >= Val(t1)
             THEN ExitDecision(TRUE, "T1", t1)
           ELSE ExitDecision(FALSE, "None", None)
    ELSE IF t2 # None /\ bar.low <= Val(t2)
           THEN ExitDecision(TRUE, "T2", t2)
         ELSE IF t1 # None /\ bar.low <= Val(t1)
           THEN ExitDecision(TRUE, "T1", t1)
         ELSE ExitDecision(FALSE, "None", None)

\* nearest_targets_from_htfs taking the farthest levels first
MutNearestTargetsFarthest(df, t0, side) ==
    IF Len(df) = 0 THEN [t1 |-> None, t2 |-> None]
    ELSE LET tfs == {"1h", "4h", "1D"}
             d(tf) == resample_ohlcv(df, t0, tf)
             prices ==
                 IF side = "LONG"
                 THEN UNION {{d(tf)[i + 1].high : i \in swing_highs(d(tf), 2, 2)} :
                                tf \in tfs}
                 ELSE UNION {{d(tf)[i + 1].low : i \in swing_lows(d(tf), 2, 2)} :
                                tf \in tfs}
             last_close == df[Len(df)].close
             beyond == IF side = "LONG" THEN {p \in prices : p > last_close}
                       ELSE {p \in prices : p < last_close}
             farthest(S) == IF side = "LONG" THEN MaxOver(S) ELSE MinOver(S)
         IN  IF beyond = {} THEN [t1 |-> None, t2 |-> None]
             ELSE LET p1 == farthest(beyond)
                      rest == beyond \ {p1}
                  IN  [t1 |-> Some(p1),
                       t2 |-> IF rest = {} THEN None ELSE Some(farthest(rest))]

\* nearest_targets_from_htfs(df_5m, side): [t1, t2]
nearest_targets_from_htfs(df, t0, side) ==
    IF Len(df) = 0 THEN [t1 |-> None, t2 |-> None]
    ELSE LET tfs == {"1h", "4h", "1D"}
             d(tf) == resample_ohlcv(df, t0, tf)
             prices ==
                 IF side = "LONG"
                 THEN UNION {{d(tf)[i + 1].high : i \in swing_highs(d(tf), 2, 2)} :
                                tf \in tfs}
                 ELSE UNION {{d(tf)[i + 1].low : i \in swing_lows(d(tf), 2, 2)} :
                                tf \in tfs}
             last_close == df[Len(df)].close
             beyond == IF side = "LONG" THEN {p \in prices : p > last_close}
                       ELSE {p \in prices : p < last_close}
             nearest(S) == IF side = "LONG" THEN MinOver(S) ELSE MaxOver(S)
         IN  IF beyond = {} THEN [t1 |-> None, t2 |-> None]
             ELSE LET p1 == nearest(beyond)
                      rest == beyond \ {p1}
                  IN  [t1 |-> Some(p1),
                       t2 |-> IF rest = {} THEN None ELSE Some(nearest(rest))]

\* swing_trailing_stop(df_5m, side, left=2, right=2)
swing_trailing_stop(df, side) ==
    IF Len(df) = 0 THEN None
    ELSE IF side = "LONG"
      THEN LET lows == swing_lows(df, 2, 2)
           IN  IF lows = {} THEN None ELSE Some(df[MaxOver(lows) + 1].low)
    ELSE LET highs == swing_highs(df, 2, 2)
         IN  IF highs = {} THEN None ELSE Some(df[MaxOver(highs) + 1].high)

\* ------------------------------------------------------------------ trend.py

Labels == {"Bullish", "Bearish", "Neutral"}

\* the ladder every caller passes to label_trend_ladder
Ladder == {"1M", "1W", "1D", "1h"}

MutPermissionMajorityBullish(labels) ==
    2 * Cardinality({tf \in DOMAIN labels : labels[tf] = "Bullish"})
        > Cardinality(DOMAIN labels)

permission_all_bullish(labels) ==
    \A tf \in DOMAIN labels : labels[tf] = "Bullish"

permission_all_bearish(labels) ==
    \A tf \in DOMAIN labels : labels[tf] = "Bearish"

\* fewest rows _label_series labels, and the spans of its two averages
MinLabelBars == 210

FastSpan == 50

SlowSpan == 200

\* the comparisons of _label_series (lines 21-39) on the closes of df; a
\* comparison with an undefined (NaN) average is False
LabelByEma(df) ==
    LET closes == [j \in 1..Len(df) |-> df[j].close]
        n == Len(df)
        e50_now == ema(closes, n, FastSpan)
        e200_now == ema(closes, n, SlowSpan)
        e50_prev == ema(closes, n - 1, FastSpan)
        e200_prev == ema(closes, n - 1, SlowSpan)
        Gt(a, b) == a # None /\ b # None /\ Val(a) > Val(b)
        close == Some(closes[n] * Scale)
    IN  IF /\ Gt(close, e50_now) /\ Gt(e50_now, e200_now)
           /\ Gt(e50_now, e50_prev) /\ Gt(e200_now, e200_prev)
        THEN "Bullish"
        ELSE IF /\ Gt(e50_now, close) /\ Gt(e200_now, e50_now)
                /\ Gt(e50_prev, e50_now) /\ Gt(e200_prev, e200_now)
        THEN "Bearish"
        ELSE "Neutral"

\* _label_series without the test of line 19: a series is labelled as soon as
\* both averages are defined at its last two rows
MutLabelSeriesNoMinimum(df) ==
    IF Len(df) < 2 THEN "Neutral" ELSE LabelByEma(df)

\* _label_series(df)
label_series(df) ==
    IF Len(df) = 0 \/ Len(df) < MinLabelBars THEN "Neutral" ELSE LabelByEma(df)

\* label_trend_ladder(df_5m, ladder) for a series whose first row has
\* timestamp t0: the label of each timeframe's resample, of df_5m itself for
\* "5m"
label_trend_ladder(df_5m, t0, ladder) ==
    [tf \in ladder |->
        label_series(IF tf # "5m" THEN resample_ohlcv(df_5m, t0, tf) ELSE df_5m)]

\* SymbolWatcher._permission / Backtester.run lines 76-80, on the labels
permission(labels) ==
    IF permission_all_bullish(labels) THEN "LONG"
    ELSE IF permission_all_bearish(labels) THEN "SHORT"
    ELSE "NONE"

\* ------------------------------------------------------------------ zones.py

\* df.tail(window) taken before the last row: the window of the bars that
\* precede the current one
MutTailRowsBeforeLast(df, window) ==
    IF Len(df) <= window THEN df
    ELSE SubSeq(df, Len(df) - window, Len(df) - 1)

\* df.tail(window)
TailRows(df, window) ==
    IF Len(df) <= window THEN df
    ELSE SubSeq(df, Len(df) - window + 1, Len(df))

\* look["close"].min() / .max()
MinClose(look) ==
    CHOOSE c \in {look[k].close : k \in 1..Len(look)} :
        \A k \in 1..Len(look) : c <= look[k].close

MaxClose(look) ==
    CHOOSE c \in {look[k].close : k \in 1..Len(look)} :
        \A k \in 1..Len(look) : c >= look[k].close

MutTooShortAtrWarmupOnly(df) == Len(df) < AtrPeriod

\* zones.py line 27: df.empty or len(df) < 50
TooShort(df) == Len(df) = 0 \/ Len(df) < MinZoneBars

MutTooWideLooseBound(width, a) == width * Scale * Scale > 2 * Scale * a

\* zones.py line 44: width > s.atr_tight_mult * float(a)
TooWide(width, a) == width * Scale * Scale > atr_tight_mult * a

\* the top touch test with the buffer on the wrong side: the high has to
\* exceed the level by the buffer
MutTouchesTopBeyondLevel(row, top_level, a) ==
    row.high * Scale * Scale >= top_level * Scale * Scale + touch_buffer_frac * a

\* zones.py line 64: hi >= top_level - buf, buf = touch_buffer_frac * a
TouchesTop(row, top_level, a) ==
    row.high * Scale * Scale >= top_level * Scale * Scale - touch_buffer_frac * a

\* zones.py line 67: lo <= bot_level + buf
TouchesBottom(row, bot_level, a) ==
    row.low * Scale * Scale <= bot_level * Scale * Scale + touch_buffer_frac * a

\* the loop counting every touching bar into total_touches
RECURSIVE MutTouchLoopNoSeparation(_, _, _, _, _, _)
MutTouchLoopNoSeparation(look, i, top_level, bot_level, a, acc) ==
    IF i >= Len(look) THEN acc
    ELSE LET row == look[i + 1]
             tt == TouchesTop(row, top_level, a)
             tb == TouchesBottom(row, bot_level, a)
             touched == tt \/ tb
         IN  MutTouchLoopNoSeparation(look, i + 1, top_level, bot_level, a,
                 [top |-> acc.top + (IF tt THEN 1 ELSE 0),
                  bottom |-> acc.bottom + (IF tb THEN 1 ELSE 0),
                  total |-> acc.total + (IF touched THEN 1 ELSE 0),
                  last_touch_i |-> IF touched THEN i ELSE acc.last_touch_i])

\* zones.py lines 52-74: the loop over the rows of look, from row i (0-based)
\* with the counters acc = [top, bottom, total, last_touch_i]
RECURSIVE TouchLoop(_, _, _, _, _, _)
TouchLoop(look, i, top_level, bot_level, a, acc) ==
    IF i >= Len(look) THEN acc
    ELSE LET row == look[i + 1]
             tt == TouchesTop(row, top_level, a)
             tb == TouchesBottom(row, bot_level, a)
             touched == tt \/ tb
             counted == touched /\ i - acc.last_touch_i >= touch_separation_bars
         IN  TouchLoop(look, i + 1, top_level, bot_level, a,
                 [top |-> acc.top + (IF tt THEN 1 ELSE 0),
                  bottom |-> acc.bottom + (IF tb THEN 1 ELSE 0),
                  total |-> acc.total + (IF counted THEN 1 ELSE 0),
                  last_touch_i |-> IF counted THEN i ELSE acc.last_touch_i])

\* detect_zone(df): None or Some(Zone)
detect_zone(df) ==
    IF TooShort(df) THEN None
    ELSE LET window == dwell_bars
             look == TailRows(df, window)
             a == atr(df, Len(df))
         IN  IF a = None THEN None
             ELSE LET low_c == MinClose(look)
                      high_c == MaxClose(look)
                      width == high_c - low_c
                  IN  IF TooWide(width, Val(a)) THEN None
                      ELSE LET acc == TouchLoop(look, 0, high_c, low_c, Val(a),
                                         [top |-> 0, bottom |-> 0, total |-> 0,
                                          last_touch_i |-> 0 - 10000])
                           IN  Some([start_idx |-> Len(df) - window,
                                     end_idx |-> Len(df) - 1,
                                     low_close |-> low_c,
                                     high_close |-> high_c,
                                     width |-> width,
                                     touches_top |-> acc.top,
                                     touches_bottom |-> acc.bottom,
                                     total_touches |-> acc.total,
                                     atr |-> Val(a),
                                     dwell_bars |-> window])

\* ------------------------------------------------- data/binance_client.py

\* stop_after_attempt(5) of the retry decorator of get_klines
MaxAttempts == 5

\* what exchange.fetch_ohlcv does on one attempt: it raises ("error"), returns
\* no rows ("none"), returns rows that the DataFrame constructor of line 80
\* rejects ("malformed"), or returns candles ("rows")
Responses == {"error", "none", "malformed", "rows"}

\* the body of get_klines (lines 58-91) on one response
KlinesAttempt(r) ==
    IF r = "error" THEN [raised |-> FALSE, frame |-> "empty"]
    ELSE IF r = "none" THEN [raised |-> FALSE, frame |-> "empty"]
    ELSE IF r = "malformed" THEN [raised |-> TRUE, frame |-> "none"]
    ELSE [raised |-> FALSE, frame |-> "rows"]

\* wait_exponential(multiplier=1, min=1, max=30) after attempt n, in seconds
BackoffWait(n) == Max2(1, Min2(30, 2 ^ (n - 1)))

\* the retry decorator of line 49 around the body: attempt n and the ones
\* after it, waited being the seconds slept so far
RECURSIVE Retrying(_, _, _)
Retrying(responses, n, waited) ==
    LET o == KlinesAttempt(responses[n])
    IN  IF o.raised /\ n < MaxAttempts
        THEN Retrying(responses, n + 1, waited + BackoffWait(n))
        ELSE [attempts |-> n, raised |-> o.raised, frame |-> o.frame,
              waited |-> waited]

\* BinanceDataClient.get_klines (lines 49-91)
get_klines(responses) == Retrying(responses, 1, 0)

\* ------------------------------------------------------- backtest/engine.py

\* timestamp (in bars) of the first bar of the replayed series
FirstBarTime == 1

\* the permissions label_trend_ladder + permission_all_* can produce.  The
\* ladder is labelled from resamples that need 210 monthly/weekly/daily/hourly
\* rows, far more history than the replayed bars: the labels are an input.
Permissions == {permission(labels) : labels \in [Ladder -> Labels]}

\* Trade(sym, side, entry_time, entry_price, sl, None, None, None, 0.0, 0.0)
Trade(side, entry_time, entry_price, sl) ==
    [side |-> side, entry_time |-> entry_time, entry_price |-> entry_price,
     sl_price |-> sl, exit_time |-> None, exit_price |-> None,
     exit_reason |-> "None", mfe |-> 0, mae |-> 0]

MutNoOpenPositionAlways(open_pos) == TRUE

\* engine.py line 74: if open_pos is None
NoOpenPosition(open_pos) == open_pos = None

\* engine.py lines 91 / 107 with buf = breakout_buffer_frac * ATR
CloseAbove(close, z, a, frac) ==
    close * Scale * Scale > z.high_close * Scale * Scale + frac * a

CloseBelow(close, z, a, frac) ==
    close * Scale * Scale < z.low_close * Scale * Scale - frac * a

BreaksAbove(close, z, a, frac) == CloseAbove(close, z, a, frac) /\ z.touches_top >= 3

BreaksBelow(close, z, a, frac) == CloseBelow(close, z, a, frac) /\ z.touches_bottom >= 3

MutEntrySideGatedByTrend(bar, z, a, frac, perm) ==
    IF perm = "LONG" /\ BreaksAbove(bar.close, z, a, frac) /\ z.dwell_bars >= dwell_bars
      THEN "LONG"
    ELSE IF perm = "SHORT" /\ BreaksBelow(bar.close, z, a, frac) /\ z.dwell_bars >= dwell_bars
      THEN "SHORT"
    ELSE "NONE"

\* engine.py lines 90-120: the side entered on this bar, "NONE" for no entry
EntrySide(bar, z, a, frac, perm) ==
    IF BreaksAbove(bar.close, z, a, frac) /\ z.dwell_bars >= dwell_bars
      THEN "LONG"
    ELSE IF BreaksBelow(bar.close, z, a, frac) /\ z.dwell_bars >= dwell_bars
      THEN "SHORT"
    ELSE "NONE"

MutUpdateTrailingLatest(side, trailing, trailing_new) ==
    IF trailing_new # None /\ trailing # None THEN trailing_new ELSE trailing

\* engine.py lines 127-132: accept the new swing only if it tightens
UpdateTrailing(side, trailing, trailing_new) ==
    IF trailing_new # None /\ trailing # None
       /\ \/ side = "LONG" /\ Val(trailing_new) > Val(trailing)
          \/ side = "SHORT" /\ Val(trailing_new) < Val(trailing)
    THEN trailing_new
    ELSE trailing

\* engine.py lines 136-141
EffectiveStop(side, sl_price, trailing) ==
    IF trailing = None THEN sl_price
    ELSE IF side = "LONG" THEN Max2(sl_price, Val(trailing))
    ELSE Min2(sl_price, Val(trailing))

MutWithExcursionsLongOnly(pos, high_water, low_water) ==
    LET risk == Abs(pos.entry_price - pos.sl_price)
        up == ((high_water - pos.entry_price) * Scale) \div Max2(risk, 1)
        down == ((pos.entry_price - low_water) * Scale) \div Max2(risk, 1)
    IN  IF risk > 0 THEN [pos EXCEPT !.mfe = up, !.mae = down] ELSE pos

\* engine.py lines 149-158: MFE / MAE in R multiples (hundredths of R)
WithExcursions(pos, high_water, low_water) ==
    LET risk == Abs(pos.entry_price - pos.sl_price)
        up == ((high_water - pos.entry_price) * Scale) \div Max2(risk, 1)
        down == ((pos.entry_price - low_water) * Scale) \div Max2(risk, 1)
    IN  IF risk > 0
        THEN IF pos.side = "LONG" THEN [pos EXCEPT !.mfe = up, !.mae = down]
             ELSE [pos EXCEPT !.mfe = down, !.mae = up]
        ELSE pos

\* the reset after an exit with the targets left as they were
MutResetKeepsTargets(b) ==
    [b EXCEPT !.open_pos = None, !.trailing = None,
              !.high_water = None, !.low_water = None]

\* engine.py lines 161-164: the locals of the trade are reset after an exit
ResetAfterExit(b) ==
    [b EXCEPT !.open_pos = None, !.trailing = None, !.t1 = None, !.t2 = None,
              !.high_water = None, !.low_water = None]

\* the locals of Backtester.run before the first bar (lines 55-60)
BacktestStart ==
    [pc |-> "loop", df |-> <<>>, open_pos |-> None, trailing |-> None,
     t1 |-> None, t2 |-> None, high_water |-> None, low_water |-> None,
     sl_effective |-> None, trades |-> <<>>]

\* one iteration of the bar loop (lines 62-165) on the window that ends with
\* the bar appended to b.df.  The loop reads only df.iloc[: i + 1], so the
\* series is held up to the current bar; is_last says i == len(df) - 1;
\* z and a are detect_zone(window) and atr(window).iloc[-1] of lines 75-83.
BacktestIteration(b, bar, z, a, is_last, perm, frac) ==
    LET window == Append(b.df, bar)
        now == FirstBarTime + Len(window) - 1
        seen == [b EXCEPT !.df = window]
    IN  IF is_last
        \* line 70: Timestamp.utcnow() is tz-aware; tz_localize raises TypeError
        THEN [seen EXCEPT !.pc = "crashed"]
        ELSE IF NoOpenPosition(b.open_pos)
        THEN IF z = None \/ a = None THEN seen
                 ELSE LET side == EntrySide(bar, Val(z), Val(a), frac, perm)
                          sl == IF side = "LONG" THEN bar.low ELSE bar.high
                          t == nearest_targets_from_htfs(window, FirstBarTime, side)
                          entered ==
                              [seen EXCEPT
                                 !.open_pos = Some(Trade(side, now, bar.close, sl)),
                                 !.t1 = t.t1, !.t2 = t.t2,
                                 !.trailing = swing_trailing_stop(window, side),
                                 !.high_water =
                                     Some(IF side = "LONG" THEN bar.high ELSE sl),
                                 !.low_water =
                                     Some(IF side = "LONG" THEN sl ELSE bar.low)]
                      IN  IF side = "NONE" THEN seen
                          \* lines 103 / 119 format t1 and t2 with :.6f, which
                          \* raises TypeError for None
                          ELSE IF t.t1 = None \/ t.t2 = None
                          THEN [entered EXCEPT !.pc = "crashed"]
                          ELSE entered
        ELSE LET pos == Val(b.open_pos)
                 high_water == Max2(Val(b.high_water), bar.high)
                 low_water == Min2(Val(b.low_water), bar.low)
                 trailing == UpdateTrailing(pos.side, b.trailing,
                                            swing_trailing_stop(window, pos.side))
                 sl_effective == EffectiveStop(pos.side, pos.sl_price, trailing)
                 decision == evaluate_exit(pos.side, bar, sl_effective, b.t1, b.t2)
                 closed == [pos EXCEPT !.exit_time = Some(now),
                                       !.exit_price = decision.exit_price,
                                       !.exit_reason = decision.reason]
             IN  IF decision.exit_now
                 THEN [ResetAfterExit(seen) EXCEPT
                         !.trades = Append(b.trades,
                                        WithExcursions(closed, high_water, low_water)),
                         !.sl_effective = Some(sl_effective)]
                 ELSE [seen EXCEPT !.high_water = Some(high_water),
                                   !.low_water = Some(low_water),
                                   !.trailing = trailing,
                                   !.sl_effective = Some(sl_effective)]

\* ---------------------------------------------------------------- monitor.py

\* Monitor(max_positions=...): the cap held in max_positions_ref["max"]
max_positions == 1

\* number of bars _fetch_recent returns
RecentBars == 50

\* config.py: retest_window_bars
retest_window_bars == 8

\* SymbolWatcher.zone_recovery_cooldown_bars
zone_recovery_cooldown_bars == 10

\* SymbolWatcher.position_exit_cooldown_bars
position_exit_cooldown_bars == 5

\* Position(symbol, side, entry_price, sl_price, time, trend_aligned, trade_id)
Position(symbol, side, entry_price, sl_price, time, trend_aligned) ==
    [symbol |-> symbol, side |-> side, entry_price |-> entry_price,
     sl_price |-> sl_price, time |-> time, trend_aligned |-> trend_aligned,
     trade_id |-> None]

\* SymbolWatcher.__init__ (lines 50-60) and the thread's position: "loop" at
\* the head of run's loop, "admitted" past the cap test of line 288, "incr"
\* past the read of line 291, "exited" after the loop is left. orders counts
\* the entry orders placed for the symbol, dashboard_trades the trades the
\* watcher added to the dashboard
SymbolWatcher(symbol) ==
    [pc |-> "loop", symbol |-> symbol, stop_event |-> FALSE,
     candidate_zone |-> None,
     open_position |-> None, no_dwell_break_time |-> None,
     awaiting_retest_side |-> None, last_breakout_time |-> None,
     position_exit_time |-> None, pos |-> None, read_open |-> None,
     orders |-> 0, dashboard_trades |-> 0]

\* len(df[df.index > t]) for a gap-free frame whose last row has time now
BarsSince(df, now, t) == Min2(Len(df), Max2(0, now - t))

\* _check_retest_logic without the test of the retest window
MutRetestNoWindow(w, df, a, now, zone, side, frac) ==
    LET last == df[Len(df)]
        cleared == [w EXCEPT !.no_dwell_break_time = None,
                             !.awaiting_retest_side = None]
        in_band == last.low <= zone.high_close /\ last.high >= zone.low_close
    IN  IF a = None THEN [w |-> w, pos |-> None]
        ELSE IF w.no_dwell_break_time = None \/ w.awaiting_retest_side # Some(side)
          THEN [w |-> w, pos |-> None]
        ELSE IF ~in_band THEN [w |-> w, pos |-> None]
        ELSE IF side = "LONG" /\ CloseAbove(last.close, zone, Val(a), frac)
          THEN [w |-> cleared,
                pos |-> Some(Position(w.symbol, "LONG", last.close, last.low,
                                      now, FALSE))]
        ELSE IF side = "SHORT" /\ CloseBelow(last.close, zone, Val(a), frac)
          THEN [w |-> cleared,
                pos |-> Some(Position(w.symbol, "SHORT", last.close, last.high,
                                      now, FALSE))]
        ELSE [w |-> w, pos |-> None]

\* SymbolWatcher._check_retest_logic (lines 81-114): the watcher and the
\* Position returned; a is atr(df).iloc[-1] of line 95
check_retest_logic(w, df, a, now, zone, side, frac) ==
    LET last == df[Len(df)]
        cleared == [w EXCEPT !.no_dwell_break_time = None,
                             !.awaiting_retest_side = None]
        in_band == last.low <= zone.high_close /\ last.high >= zone.low_close
    IN  IF a = None THEN [w |-> w, pos |-> None]
        ELSE IF w.no_dwell_break_time = None \/ w.awaiting_retest_side # Some(side)
          THEN [w |-> w, pos |-> None]
        ELSE IF now > Val(w.no_dwell_break_time) + retest_window_bars
          THEN [w |-> cleared, pos |-> None]
        ELSE IF ~in_band THEN [w |-> w, pos |-> None]
        ELSE IF side = "LONG" /\ CloseAbove(last.close, zone, Val(a), frac)
          THEN [w |-> cleared,
                pos |-> Some(Position(w.symbol, "LONG", last.close, last.low,
                                      now, FALSE))]
        ELSE IF side = "SHORT" /\ CloseBelow(last.close, zone, Val(a), frac)
          THEN [w |-> cleared,
                pos |-> Some(Position(w.symbol, "SHORT", last.close, last.high,
                                      now, FALSE))]
        ELSE [w |-> w, pos |-> None]

\* _check_breakout of a watcher whose dwell_bars setting is one above the
\* window detect_zone stamps its zones with
MutCheckBreakoutLongerDwell(w, df, a, now, zone, perm, frac) ==
    LET last == df[Len(df)]
        dwell == zone.dwell_bars >= dwell_bars + 1
    IN  IF Len(df) = 0 \/ a = None THEN [w |-> w, pos |-> None]
        ELSE IF BreaksAbove(last.close, zone, Val(a), frac)
          THEN IF dwell
               THEN [w |-> w,
                     pos |-> Some(Position(w.symbol, "LONG", last.close,
                                           last.low, now, perm = "LONG"))]
               ELSE [w |-> [w EXCEPT !.no_dwell_break_time = Some(now),
                                     !.awaiting_retest_side = Some("LONG")],
                     pos |-> None]
        ELSE IF BreaksBelow(last.close, zone, Val(a), frac)
          THEN IF dwell
               THEN [w |-> w,
                     pos |-> Some(Position(w.symbol, "SHORT", last.close,
                                           last.high, now, perm = "SHORT"))]
               ELSE [w |-> [w EXCEPT !.no_dwell_break_time = Some(now),
                                     !.awaiting_retest_side = Some("SHORT")],
                     pos |-> None]
        ELSE check_retest_logic(w, df, a, now, zone, perm, frac)

\* SymbolWatcher._check_breakout (lines 116-170); a is atr(df).iloc[-1] of
\* line 121
check_breakout(w, df, a, now, zone, perm, frac) ==
    LET last == df[Len(df)]
        dwell == zone.dwell_bars >= dwell_bars
    IN  IF Len(df) = 0 \/ a = None THEN [w |-> w, pos |-> None]
        ELSE IF BreaksAbove(last.close, zone, Val(a), frac)
          THEN IF dwell
               THEN [w |-> w,
                     pos |-> Some(Position(w.symbol, "LONG", last.close,
                                           last.low, now, perm = "LONG"))]
               ELSE [w |-> [w EXCEPT !.no_dwell_break_time = Some(now),
                                     !.awaiting_retest_side = Some("LONG")],
                     pos |-> None]
        ELSE IF BreaksBelow(last.close, zone, Val(a), frac)
          THEN IF dwell
               THEN [w |-> w,
                     pos |-> Some(Position(w.symbol, "SHORT", last.close,
                                           last.high, now, perm = "SHORT"))]
               ELSE [w |-> [w EXCEPT !.no_dwell_break_time = Some(now),
                                     !.awaiting_retest_side = Some("SHORT")],
                     pos |-> None]
        \* line 166 passes perm where _check_retest_logic expects the side
        ELSE check_retest_logic(w, df, a, now, zone, perm, frac)

\* line 271: the candidate is replaced only if end_idx or width changed
RefreshCandidate(w, z) ==
    IF \/ w.candidate_zone = None
       \/ Val(z).end_idx # Val(w.candidate_zone).end_idx
       \/ Val(z).width # Val(w.candidate_zone).width
    THEN [w EXCEPT !.candidate_zone = z]
    ELSE w

\* the cap test without the warning branch: a signal found at the cap is kept
\* and entered like any other
MutCapTestQueues(w, ref, pos) == [w EXCEPT !.pc = "admitted", !.pos = pos]

\* SymbolWatcher.run lines 287-290: at the cap the signal is logged and
\* dropped, below it the watcher goes on to take the position
CapTest(w, ref, pos) ==
    IF ref.open >= ref.max THEN w
    ELSE [w EXCEPT !.pc = "admitted", !.pos = pos]

\* SymbolWatcher.run, one pass of the loop from the fetch of line 219 to the
\* cap test of line 288, on the frame df whose last row has time now; z is
\* detect_zone(df) of line 250 and a the frame's last ATR
WatcherLoopBody(w, ref, df, z, a, now, perm, frac) ==
    IF Len(df) = 0 THEN w
    ELSE IF ~NoOpenPosition(w.open_position) THEN w
    ELSE IF /\ w.position_exit_time # None
            /\ BarsSince(df, now, Val(w.position_exit_time))
                 < position_exit_cooldown_bars
      THEN w
    ELSE IF /\ w.last_breakout_time # None
            /\ BarsSince(df, now, Val(w.last_breakout_time))
                 < zone_recovery_cooldown_bars
      THEN [w EXCEPT !.position_exit_time = None]
    ELSE LET w0 == [w EXCEPT !.position_exit_time = None]
         IN  IF z = None
             THEN IF /\ w0.last_breakout_time # None
                     /\ BarsSince(df, now, Val(w0.last_breakout_time))
                          < zone_recovery_cooldown_bars * 2
                  THEN w0
                  ELSE [w0 EXCEPT !.pc = "exited"]
             ELSE LET w1 == RefreshCandidate(
                                [w0 EXCEPT !.last_breakout_time = None], z)
                      r == check_breakout(w1, df, a, now, Val(w1.candidate_zone),
                                          perm, frac)
                  IN  IF r.pos = None THEN r.w
                      ELSE LET w2 == [r.w EXCEPT !.last_breakout_time = Some(now)]
                           IN  CapTest(w2, ref, r.pos)

\* SymbolWatcher.run lines 300-303: the exception is logged, the thread sleeps
\* and continues with the next pass
MutLoopExceptionStops(w) == [w EXCEPT !.pc = "exited"]

OnLoopException(w) == w

\* SymbolWatcher.run, one pass from the loop test of line 217: got is what
\* _fetch_recent did, "raise" for an exception and a frame kind otherwise
WatcherPass(w, ref, got, df, z, a, now, perm, frac) ==
    IF w.stop_event THEN [w EXCEPT !.pc = "exited"]
    ELSE IF got = "raise" THEN OnLoopException(w)
    ELSE WatcherLoopBody(w, ref, df, z, a, now, perm, frac)

\* config.py: position_size_pct_trend_aligned, position_size_pct_counter_trend
position_size_pct_trend_aligned == 5

position_size_pct_counter_trend == 3

\* FuturesClient.calculate_position_size (lines 68-85), in hundredths of a
\* unit, for an available balance in whole units
calculate_position_size(entry_price, sl_price, trend_aligned, available_balance) ==
    LET position_value == IF trend_aligned
                          THEN available_balance * position_size_pct_trend_aligned
                          ELSE available_balance * position_size_pct_counter_trend
        risk_per_unit == Abs(entry_price - sl_price)
    IN  IF risk_per_unit <= 0 THEN 0
        ELSE position_value \div risk_per_unit

\* SymbolWatcher._execute_trade (lines 172-213): the trade id is set; on a
\* quantity <= 0 the method returns; otherwise the trade is added to the
\* dashboard and the entry order is placed unless the exchange call fails
execute_trade(w, available_balance, placed) ==
    LET pos == Val(w.open_position)
        quantity == calculate_position_size(pos.entry_price, pos.sl_price,
                                            pos.trend_aligned, available_balance)
        withId == [w EXCEPT !.open_position = Some([pos EXCEPT !.trade_id = Some(w.symbol)])]
    IN  IF quantity <= 0 THEN withId
        ELSE IF placed
        THEN [withId EXCEPT !.dashboard_trades = w.dashboard_trades + 1,
                            !.orders = w.orders + 1]
        ELSE [withId EXCEPT !.dashboard_trades = w.dashboard_trades + 1]

\* threading.Thread.is_alive for a watcher thread that was started
MutIsAliveNever(w) == FALSE

is_alive(w) == w.pc # "exited"

\* Monitor._on_candidate (lines 395-404), under Monitor.lock
on_candidate(m, symbol) ==
    IF symbol \in DOMAIN m.watchers THEN m
    ELSE IF symbol \notin m.candidate_symbols
    THEN [m EXCEPT
            !.candidate_symbols = m.candidate_symbols \cup {symbol},
            !.watchers = [s \in DOMAIN m.watchers \cup {symbol} |->
                             IF s = symbol THEN SymbolWatcher(symbol)
                             ELSE m.watchers[s]],
            !.threads[symbol] = m.threads[symbol] + 1]
    ELSE m

\* _cleanup_watchers without the discard of line 415: the ended watcher
\* leaves Monitor.watchers and stays in candidate_symbols
MutCleanupKeepsCandidate(m) ==
    [m EXCEPT
       !.watchers = [s \in {t \in DOMAIN m.watchers : is_alive(m.watchers[t])}
                        |-> m.watchers[s]]]

\* Monitor._cleanup_watchers (lines 406-415), under Monitor.lock
cleanup_watchers(m) ==
    LET to_remove == {s \in DOMAIN m.watchers : ~is_alive(m.watchers[s])}
    IN  [m EXCEPT
           !.watchers = [s \in DOMAIN m.watchers \ to_remove |-> m.watchers[s]],
           !.candidate_symbols = m.candidate_symbols \ to_remove]

\* config.py: max_monitor_pool_size, the number of candidates a scan offers
max_monitor_pool_size == 1

\* Monitor.symbols, in the order of the list
SymbolOrder == <<"s1", "s2">>

\* GlobalScanner.run lines 351-353: the scanner asks for the last
\* max(60, dwell_bars + 20) candles
ScanBars == Max2(60, dwell_bars + 20)

\* lines 362-364: the zone qualifies with total_touches >= 2
IsCandidate(z) == z # None /\ Val(z).total_touches >= 2

\* priority_score = total_touches / (width + 0.001) of y above that of z
HigherPriority(y, z) ==
    y.total_touches * (z.width * 1000 + 1) > z.total_touches * (y.width * 1000 + 1)

\* lines 367-369: candidates.sort(key=priority_score, reverse=True) is stable,
\* and the first max_monitor_pool_size candidates are offered; zones maps
\* each scanned symbol to its detect_zone result
TopCandidates(zones) ==
    LET cands == {i \in 1..Len(SymbolOrder) : IsCandidate(zones[SymbolOrder[i]])}
        zone(i) == Val(zones[SymbolOrder[i]])
        Before(i, j) == \/ HigherPriority(zone(i), zone(j))
                        \/ ~HigherPriority(zone(j), zone(i)) /\ i < j
    IN  {SymbolOrder[j] : j \in
            {j \in cands :
                Cardinality({i \in cands : Before(i, j)}) < max_monitor_pool_size}}

\* line 370: candidate_cb for each offered symbol; the calls for distinct
\* symbols commute
RECURSIVE OfferAll(_, _)
OfferAll(m, offered) ==
    IF offered = {} THEN m
    ELSE LET symbol == CHOOSE s \in offered : TRUE
         IN  OfferAll(on_candidate(m, symbol), offered \ {symbol})

\* Monitor.stop (lines 479-486): the scanner's and every registered watcher's
\* stop event is set; the joins that follow change no state
monitor_stop(m) ==
    [m EXCEPT !.pc = "stopped",
              !.scanner.stop_event = TRUE,
              !.watchers = [s \in DOMAIN m.watchers |->
                               [m.watchers[s] EXCEPT !.stop_event = TRUE]]]

\* ============================================================ input families

\* bound on the prices of the enumerated bars
MaxPrice == 4

\* well-formed candles: low <= close <= high
Bars(lo, hi) ==
    {[high |-> h, low |-> l, close |-> c] :
        h \in lo..hi, l \in lo..hi, c \in lo..hi} \ 
    {b \in [high : lo..hi, low : lo..hi, close : lo..hi] :
        b.low > b.close \/ b.close > b.high}

OptPrices(lo, hi) == {None} \cup {Some(p) : p \in lo..hi}

\* n identical bars closing at c with range c-r .. c+r
Flat(n, c, r) == [k \in 1..n |-> [high |-> c + r, low |-> c - r, close |-> c]]

\* all sequences of length n over S
SeqsOf(S, n) == [1..n -> S]

\* ========================================== pure functions applied to inputs

ExitInputs ==
    [side : {"LONG", "SHORT"}, bar : Bars(1, MaxPrice), sl_price : 0..(MaxPrice + 1),
     t1 : OptPrices(1, MaxPrice), t2 : OptPrices(1, MaxPrice)]

\* the variables of the entry points that do not run
NoBacktest == [pc |-> "off"]

NoLive == [pc |-> "off"]

IdleRest == /\ settings = [breakout_buffer_frac |-> breakout_buffer_frac]
            /\ market = <<>>
            /\ bt = NoBacktest
            /\ live = NoLive

InitExit == fn_in \in ExitInputs /\ fn_out = None /\ mode = "fn" /\ IdleRest

CallEvaluateExit ==
    /\ fn_out = None
    /\ fn_in \in ExitInputs
    /\ fn_out' = Some(evaluate_exit(fn_in.side, fn_in.bar, fn_in.sl_price,
                                    fn_in.t1, fn_in.t2))
    /\ UNCHANGED <<fn_in, mode, settings, market, bt, live>>

SpecExit == InitExit /\ [][CallEvaluateExit]_vars

LadderInputs == [Ladder -> Labels]

InitTrend == fn_in \in LadderInputs /\ fn_out = None /\ mode = "fn" /\ IdleRest

CallPermission ==
    /\ fn_out = None
    /\ fn_in \in LadderInputs
    /\ fn_out' = Some(permission(fn_in))
    /\ UNCHANGED <<fn_in, mode, settings, market, bt, live>>

SpecTrend == InitTrend /\ [][CallPermission]_vars

\* close of the flat history that precedes the enumerated bars
BasePrice == 10

\* number of enumerated bars that follow the flat history
MaxTail == 4

\* shapes of the enumerated bars, as offsets <<high, low, close>> from c
TailShapes ==
    {<<1, 0 - 1, 0>>, <<0, 0, 0>>, <<1, 0, 1>>, <<2, 1, 1>>, <<2, 1, 2>>,
     <<0, 0 - 1, 0 - 1>>}

TailBars(c) ==
    {[high |-> c + sh[1], low |-> c + sh[2], close |-> c + sh[3]] :
        sh \in TailShapes}

\* series lengths on both sides of the ATR warm-up and of the 50-bar minimum
ZoneLens ==
    {AtrPeriod - 1, AtrPeriod, MinZoneBars - 1, MinZoneBars, MinZoneBars + 1}

\* a flat history followed by MaxTail enumerated bars
ZoneInputs ==
    {Flat(n - MaxTail, BasePrice, 1) \o tail :
        n \in ZoneLens, tail \in SeqsOf(TailBars(BasePrice), MaxTail)}

InitZone == fn_in \in ZoneInputs /\ fn_out = None /\ mode = "fn" /\ IdleRest

CallDetectZone ==
    /\ fn_out = None
    /\ fn_in \in ZoneInputs
    /\ fn_out' = Some(detect_zone(fn_in))
    /\ UNCHANGED <<fn_in, mode, settings, market, bt, live>>

SpecZone == InitZone /\ [][CallDetectZone]_vars

\* the exchange's responses to the attempts of one get_klines call
KlinesInputs == [1..MaxAttempts -> Responses]

InitKlines == fn_in \in KlinesInputs /\ fn_out = None /\ mode = "fn" /\ IdleRest

CallGetKlines ==
    /\ mode = "fn" /\ fn_out = None
    /\ fn_in \in KlinesInputs
    /\ fn_out' = Some(get_klines(fn_in))
    /\ UNCHANGED <<fn_in, mode, settings, market, bt, live>>

SpecKlines == InitKlines /\ [][CallGetKlines]_vars

\* left and right of swing_highs / swing_lows: the defaults, used by every caller
PivotSpan == 2

\* longest series the pivot functions are applied to
MaxPivotLen == 6

\* the bars a series grows by: highs 2..3, lows 1..2
PivotBars ==
    {[high |-> 2, low |-> 1, close |-> 1], [high |-> 3, low |-> 1, close |-> 2],
     [high |-> 3, low |-> 2, close |-> 2], [high |-> 2, low |-> 2, close |-> 2]}

\* the pivots and the swing trailing stops of a series
PivotsOf(df) ==
    [highs |-> swing_highs(df, PivotSpan, PivotSpan),
     lows |-> swing_lows(df, PivotSpan, PivotSpan),
     trail_long |-> swing_trailing_stop(df, "LONG"),
     trail_short |-> swing_trailing_stop(df, "SHORT")]

InitPivots ==
    fn_in = <<>> /\ fn_out = Some(PivotsOf(<<>>)) /\ mode = "fn" /\ IdleRest

\* one more bar arrives and the pivots are computed again on the longer series
AppendBar ==
    /\ mode = "fn" /\ Len(fn_in) < MaxPivotLen
    /\ \E bar \in PivotBars :
          /\ fn_in' = Append(fn_in, bar)
          /\ fn_out' = Some(PivotsOf(fn_in'))
    /\ UNCHANGED <<mode, settings, market, bt, live>>

SpecPivots == InitPivots /\ [][AppendBar]_vars

\* longest series resample_ohlcv is applied to: two hours and a part of a third
MaxResampleLen == 26

\* the bar of timestamp t of a series that swings (every == 3) or drifts
\* upwards (every == 1) around BasePrice
SwingBar(t, every) ==
    LET c == BasePrice + ((t \div every) % 3)
    IN  [high |-> c + 1, low |-> c - 1, close |-> c]

\* gap-free 5-minute series: the timestamp t0 of the first row takes every
\* position within an hour
ResampleInputs ==
    {[df |-> [k \in 1..n |-> SwingBar(t0 + k - 1, every)], t0 |-> t0] :
        n \in 1..MaxResampleLen, t0 \in 1..BarsPerBucket("1h"), every \in {1, 3}}

InitResample ==
    fn_in \in ResampleInputs /\ fn_out = None /\ mode = "fn" /\ IdleRest

CallResample ==
    /\ mode = "fn" /\ fn_out = None
    /\ fn_in \in ResampleInputs
    /\ fn_out' = Some(resample_ohlcv(fn_in.df, fn_in.t0, "1h"))
    /\ UNCHANGED <<fn_in, mode, settings, market, bt, live>>

SpecResample == InitResample /\ [][CallResample]_vars

\* number of enumerated bars that end the series atr and ema are applied to
AtrTail == 2

\* series lengths around the warm-up of the 14-period indicators
AtrLens == {AtrPeriod - 1, AtrPeriod, AtrPeriod + 1, AtrPeriod + 2}

AtrInputs ==
    {Flat(n - AtrTail, BasePrice, 1) \o tail :
        n \in AtrLens, tail \in SeqsOf(TailBars(BasePrice), AtrTail)}

InitAtr == fn_in \in AtrInputs /\ fn_out = None /\ mode = "fn" /\ IdleRest

\* atr(df) and ema(df["close"], 14): the value of every row
CallAtr ==
    /\ mode = "fn" /\ fn_out = None
    /\ fn_in \in AtrInputs
    /\ fn_out' =
          Some([atr |-> [k \in 1..Len(fn_in) |-> atr(fn_in, k)],
                ema |-> [k \in 1..Len(fn_in) |->
                            ema([j \in 1..Len(fn_in) |-> fn_in[j].close], k,
                                AtrPeriod)]])
    /\ UNCHANGED <<fn_in, mode, settings, market, bt, live>>

SpecAtr == InitAtr /\ [][CallAtr]_vars

\* number of bars on which _check_breakout is called: the retest window and
\* three bars more
RetestTicks == 11

\* The zones handed to _check_breakout: the band BasePrice - 1 .. BasePrice + 1
\* with an ATR of one tick, two or three touches on both sides, and dwell_bars
\* at the setting or one below it.  Zone is a parameter of _check_breakout;
\* detect_zone stamps every zone it returns with the configured dwell_bars, so
\* a zone below the setting reaches the watcher only if DWELL_BARS differs
\* between the watcher's settings and those detect_zone reads.
RetestZones ==
    {[start_idx |-> 0, end_idx |-> d - 1,
      low_close |-> BasePrice - 1, high_close |-> BasePrice + 1, width |-> 2,
      touches_top |-> n, touches_bottom |-> n, total_touches |-> n,
      atr |-> Scale, dwell_bars |-> d] :
        n \in {2, 3}, d \in {dwell_bars - 1, dwell_bars}}

\* bars above the band, closing above it from inside it, inside it, closing
\* below it from inside it, and below it
RetestBars ==
    {[high |-> BasePrice + 4, low |-> BasePrice + 3, close |-> BasePrice + 3],
     [high |-> BasePrice + 3, low |-> BasePrice + 1, close |-> BasePrice + 2],
     [high |-> BasePrice + 1, low |-> BasePrice - 1, close |-> BasePrice],
     [high |-> BasePrice - 1, low |-> BasePrice - 3, close |-> BasePrice - 2],
     [high |-> BasePrice - 3, low |-> BasePrice - 4, close |-> BasePrice - 3]}

\* a new watcher; fn_in is the time of the last bar it has looked at
InitRetest == fn_in = 0 /\ fn_out = None /\ mode = "fn" /\ IdleRest

\* _check_breakout on the next bar, for a watcher that holds no position; the
\* watcher before the call and the arguments are kept with the result
CallCheckBreakout ==
    /\ mode = "fn" /\ fn_in \in 0..(RetestTicks - 1)
    /\ fn_out # None => Val(fn_out).pos = None
    /\ \E bar \in RetestBars, zone \in RetestZones, perm \in Permissions :
          LET before == IF fn_out = None THEN SymbolWatcher("s1")
                        ELSE Val(fn_out).w
              r == check_breakout(before, <<bar>>, Some(zone.atr), fn_in + 1,
                                  zone, perm, breakout_buffer_frac)
          IN  /\ fn_in' = fn_in + 1
              /\ fn_out' = Some([w |-> r.w, pos |-> r.pos,
                                 pending_time |-> before.no_dwell_break_time,
                                 pending_side |-> before.awaiting_retest_side,
                                 bar |-> bar, zone |-> zone, perm |-> perm])
    /\ UNCHANGED <<mode, settings, market, bt, live>>

SpecRetest == InitRetest /\ [][CallCheckBreakout]_vars

\* label_trend_ladder on straight 5-minute series: the longest has the 300
\* bars of tests/test_trend.py
MaxTrendLen == 300

\* make_series of tests/test_trend.py in ticks: n closes from start, step
\* apart, high and low one tick away
Line(n, start, step) ==
    [j \in 1..n |-> LET v == start + (j - 1) * step
                    IN  [high |-> v + 1, low |-> v - 1, close |-> v]]

TrendLens == {n \in 0..MaxTrendLen : n < 3 \/ n % 10 \in {0, 1, 9} \/ n % 12 = 0}

TrendInputs ==
    {[df |-> Line(n, IF step < 0 THEN MaxTrendLen + 100 ELSE 100, step),
      step |-> step, t0 |-> t0, ladder |-> ladder] :
        n \in TrendLens, step \in {-1, 0, 1}, t0 \in {FirstBarTime, 7},
        ladder \in {Ladder, {"5m"}}}

InitLabels == fn_in \in TrendInputs /\ fn_out = None /\ mode = "fn" /\ IdleRest

CallLabelTrendLadder ==
    /\ fn_out = None
    /\ fn_in \in TrendInputs
    /\ LET labels == label_trend_ladder(fn_in.df, fn_in.t0, fn_in.ladder)
       IN  fn_out' = Some([labels |-> labels, perm |-> permission(labels)])
    /\ UNCHANGED <<fn_in, mode, settings, market, bt, live>>

SpecLabels == InitLabels /\ [][CallLabelTrendLadder]_vars

\* =========================================================== backtest replay

\* number of enumerated bars that may follow the served history
BtTail == 5

\* length of the flat consolidation of the end-to-end scenario
ScenarioBars == 210

\* shapes of the bars enumerated after the history, <<high, low, close>>
BtShapes ==
    {<<1, 0 - 2, 0>>, <<1, 0, 1>>, <<3, 1, 2>>, <<0, 0 - 1, 0 - 1>>}

BtBars(c) ==
    {[high |-> c + sh[1], low |-> c + sh[2], close |-> c + sh[3]] : sh \in BtShapes}

\* A swinging history of seven full hours (84 bars): closes alternate between
\* c - 2 and c, too wide for a zone; one bar of hour 3 and one of hour 6 spike,
\* which gives two distinct hourly swing highs (c + 2, c + 3) and swing lows
\* (c - 4, c - 5); the last three bars close at c.
SwingHistory(c) ==
    [k \in 1..84 |->
        IF k = 81 THEN [high |-> c + 2, low |-> c, close |-> c + 2]
        ELSE IF k % 2 = 0
        THEN [high |-> IF k = 30 THEN c + 2 ELSE IF k = 66 THEN c + 3 ELSE c + 1,
              low |-> c - 1, close |-> c]
        ELSE IF k > 81 THEN [high |-> c + 1, low |-> c - 1, close |-> c]
        ELSE [high |-> c - 1,
              low |-> IF k = 31 THEN c - 4 ELSE IF k = 67 THEN c - 5 ELSE c - 3,
              close |-> c - 2]]

Histories == {SwingHistory(BasePrice), Flat(ScenarioBars, BasePrice, 1)}

\* BREAKOUT_BUFFER_FRAC is read from the environment without validation
\* (config.py line 101): the default and a negative value
BufferFracs == {breakout_buffer_frac, 0 - breakout_buffer_frac}

InitBacktest ==
    /\ mode = "backtest"
    /\ fn_in = None /\ fn_out = None
    /\ settings \in [breakout_buffer_frac : BufferFracs]
    /\ market \in Histories \cup {<<>>}
    /\ bt = BacktestStart
    /\ live = NoLive

\* the bar the data source holds after the bars of df
NextBars(df) ==
    IF Len(df) < Len(market) THEN {market[Len(df) + 1]}
    ELSE IF Len(market) = 0 THEN {}
    ELSE BtBars(BasePrice)

\* Backtester.run lines 52-54: an empty series is skipped
BacktestEmpty ==
    /\ mode = "backtest" /\ bt.pc = "loop"
    /\ market = <<>>
    /\ bt' = [bt EXCEPT !.pc = "done"]
    /\ UNCHANGED <<fn_in, fn_out, mode, settings, market, live>>

\* Backtester.run lines 62-165: the iteration of the next bar, which is one
\* of bars; the series ends at the latest tail bars after the history
ReplayBar(bars, tail) ==
    /\ mode = "backtest" /\ bt.pc = "loop"
    /\ \E bar \in bars :
          LET window == Append(bt.df, bar)
              z == detect_zone(window)
              a == atr(window, Len(window))
          IN  \E is_last \in BOOLEAN, perm \in Permissions :
                 /\ Len(window) >= Len(market) + tail => is_last
                 /\ bt' = BacktestIteration(bt, bar, z, a, is_last, perm,
                                            settings.breakout_buffer_frac)
    /\ UNCHANGED <<fn_in, fn_out, mode, settings, market, live>>

BacktestBar == ReplayBar(NextBars(bt.df), BtTail)

\* close of the last bars of the falling history
FallPrice == 100

\* number of enumerated bars that may follow the falling history
FallTail == 7

\* A falling history of seven full hours (84 bars): the close falls by one
\* tick per bar to c + 3 at bar 81, with high = close + 1 and low = close - 1,
\* then stays at c for three bars whose lows keep falling.  Every bar's low
\* is below the low of the bar before it, so the series has no swing low.  One
\* bar of hour 3 and one of hour 6 spike, which gives two hourly swing highs
\* (c + 50, c + 90) above the last closes.
FallingHistory(c) ==
    [k \in 1..84 |->
        IF k > 81 THEN [high |-> c + 1, low |-> c - (k - 81), close |-> c]
        ELSE LET close == c + 3 + (81 - k)
             IN  [high |-> IF k = 30 THEN c + 90 ELSE IF k = 66 THEN c + 50
                           ELSE close + 1,
                  low |-> close - 1, close |-> close]]

\* shapes of the bars enumerated after the falling history
FallShapes == {<<1, 0 - 2, 0>>, <<1, 0, 1>>, <<0, 0 - 1, 0 - 1>>}

FallBars(df) ==
    IF Len(df) < Len(market) THEN {market[Len(df) + 1]}
    ELSE {[high |-> FallPrice + sh[1], low |-> FallPrice + sh[2],
           close |-> FallPrice + sh[3]] : sh \in FallShapes}

InitFalling ==
    /\ mode = "backtest"
    /\ fn_in = None /\ fn_out = None
    /\ settings \in [breakout_buffer_frac : BufferFracs]
    /\ market = FallingHistory(FallPrice)
    /\ bt = BacktestStart
    /\ live = NoLive

FallingBar == ReplayBar(FallBars(bt.df), FallTail)

SpecFalling == InitFalling /\ [][FallingBar]_vars

\* ============================================================== live monitor

Symbols == {"s1", "s2"}

\* number of bars that close while the monitor runs
LiveTicks == 2

Candle(c) == [high |-> c + 1, low |-> c - 1, close |-> c]

Repeat(n, b) == [k \in 1..n |-> b]

\* a consolidation at c whose last dwell_bars - 1 closes sit one tick towards
\* c + step, followed by closes one tick further
Drift(c, step) ==
    Repeat(RecentBars - dwell_bars + 1, Candle(c))
      \o Repeat(dwell_bars - 1, Candle(c + step))
      \o Repeat(LiveTicks, Candle(c + 2 * step))

\* the candles the exchange holds for one symbol up to the last tick: a
\* drift up, a drift down, and a range left by a jump
LiveSeries ==
    {Drift(BasePrice, 1), Drift(BasePrice, 0 - 1),
     Repeat(RecentBars, Candle(BasePrice)) \o Repeat(LiveTicks, Candle(BasePrice + 3))}

InitLive ==
    /\ mode = "live"
    /\ fn_in = None /\ fn_out = None
    /\ settings = [breakout_buffer_frac |-> breakout_buffer_frac]
    /\ market \in [Symbols -> LiveSeries]
    /\ bt = NoBacktest
    /\ live = [pc |-> "on", clock |-> RecentBars,
               max_positions_ref |-> [open |-> 0, max |-> max_positions],
               candidate_symbols |-> {}, watchers |-> <<>>,
               scanner |-> [pc |-> "run", stop_event |-> FALSE],
               threads |-> [s \in Symbols |-> 0],
               exceptions_logged |-> 0]

\* SymbolWatcher._fetch_recent: the last RecentBars candles of the symbol
FetchRecent(symbol) ==
    SubSeq(market[symbol], live.clock - RecentBars + 1, live.clock)

\* what _fetch_recent can do: return the recent candles, return fewer candles
\* than detect_zone needs, return an empty frame, or raise
FetchOutcomes == {"rows", "short", "empty", "raise"}

\* length of a frame that is too short for detect_zone
ShortBars == MinZoneBars - 1

Fetched(symbol, got) ==
    IF got = "rows" THEN FetchRecent(symbol)
    ELSE IF got = "short"
    THEN SubSeq(market[symbol], live.clock - ShortBars + 1, live.clock)
    ELSE <<>>

\* available balances of the futures account, in whole units
Balances == {0, 100}

\* number of watcher exceptions the log keeps
MaxLogged == 1

\* a 5-minute bar closes
Tick ==
    /\ mode = "live"
    /\ live.clock < RecentBars + LiveTicks
    /\ live' = [live EXCEPT !.clock = live.clock + 1]
    /\ UNCHANGED <<fn_in, fn_out, mode, settings, market, bt>>

\* GlobalScanner.run line 370: the scanner thread, while it runs, calls
\* Monitor._on_candidate (lines 395-404) for a symbol
OnCandidate ==
    /\ mode = "live"
    /\ live.scanner.pc = "run"
    /\ \E symbol \in Symbols : live' = on_candidate(live, symbol)
    /\ UNCHANGED <<fn_in, fn_out, mode, settings, market, bt>>

\* Monitor._maintenance_loop line 450: Monitor._cleanup_watchers
CleanupWatchers ==
    /\ mode = "live"
    /\ live' = cleanup_watchers(live)
    /\ UNCHANGED <<fn_in, fn_out, mode, settings, market, bt>>

\* SymbolWatcher.run lines 217-289 and 300-303: one pass of the loop up to
\* the cap test; a thread that leaves the loop ends
WatcherPoll ==
    /\ mode = "live"
    /\ \E s \in DOMAIN live.watchers, got \in FetchOutcomes :
          LET w == live.watchers[s]
              df == Fetched(s, got)
              z == detect_zone(df)
              a == atr(df, Len(df))
              raised == ~w.stop_event /\ got = "raise"
          IN  /\ w.pc = "loop"
              /\ raised => live.exceptions_logged < MaxLogged
              /\ \E perm \in Permissions :
                    LET w2 == WatcherPass(w, live.max_positions_ref, got, df, z, a,
                                          live.clock, perm,
                                          settings.breakout_buffer_frac)
                    IN  live' = [live EXCEPT
                          !.watchers[s] = w2,
                          !.threads[s] =
                              IF w2.pc = "exited" THEN live.threads[s] - 1
                              ELSE live.threads[s],
                          !.exceptions_logged =
                              IF raised THEN live.exceptions_logged + 1
                              ELSE live.exceptions_logged]
    /\ UNCHANGED <<fn_in, fn_out, mode, settings, market, bt>>

\* line 291, right-hand side: max_positions_ref.get("open", 0) is read
WatcherReadOpen ==
    /\ mode = "live"
    /\ \E s \in DOMAIN live.watchers :
          /\ live.watchers[s].pc = "admitted"
          /\ live' = [live EXCEPT
                        !.watchers[s].read_open = Some(live.max_positions_ref.open),
                        !.watchers[s].pc = "incr"]
    /\ UNCHANGED <<fn_in, fn_out, mode, settings, market, bt>>

\* lines 291-293: the sum is stored, the position is taken and executed
WatcherAdmit ==
    /\ mode = "live"
    /\ \E s \in DOMAIN live.watchers, available_balance \in Balances,
          placed \in BOOLEAN :
          LET w == live.watchers[s]
          IN  /\ w.pc = "incr"
              /\ live' = [live EXCEPT
                    !.max_positions_ref.open = Val(w.read_open) + 1,
                    !.watchers[s] =
                        execute_trade([w EXCEPT !.open_position = w.pos,
                                                !.pos = None, !.read_open = None,
                                                !.pc = "loop"],
                                      available_balance, placed)]
    /\ UNCHANGED <<fn_in, fn_out, mode, settings, market, bt>>

\* Monitor.stop (lines 479-486)
MonitorStop ==
    /\ mode = "live"
    /\ live.pc = "on"
    /\ live' = monitor_stop(live)
    /\ UNCHANGED <<fn_in, fn_out, mode, settings, market, bt>>

\* GlobalScanner.run line 346: the scanner thread finds its stop event set at
\* the head of its loop and ends
ScannerExit ==
    /\ mode = "live"
    /\ live.scanner.pc = "run"
    /\ live.scanner.stop_event
    /\ live' = [live EXCEPT !.scanner.pc = "done"]
    /\ UNCHANGED <<fn_in, fn_out, mode, settings, market, bt>>

Init == InitBacktest \/ InitLive

Next ==
    \/ BacktestEmpty
    \/ BacktestBar
    \/ Tick
    \/ OnCandidate
    \/ CleanupWatchers
    \/ WatcherPoll
    \/ WatcherReadOpen
    \/ WatcherAdmit

Spec == Init /\ [][Next]_vars

\* the monitor alone, while it runs
NextLive ==
    \/ Tick
    \/ OnCandidate
    \/ CleanupWatchers
    \/ WatcherPoll
    \/ WatcherReadOpen
    \/ WatcherAdmit

SpecLive == InitLive /\ [][NextLive]_vars

\* the monitor from its start to after Monitor.stop, on rising markets
InitShutdown ==
    /\ InitLive
    /\ \A s \in Symbols : market[s] = Drift(BasePrice, 1)

NextMonitor ==
    \/ Tick
    \/ OnCandidate
    \/ CleanupWatchers
    \/ WatcherPoll
    \/ WatcherReadOpen
    \/ WatcherAdmit
    \/ MonitorStop
    \/ ScannerExit

SpecMonitor == InitShutdown /\ [][NextMonitor]_vars

\* the monitor with its maintenance thread: _maintenance_loop (lines 443-455)
\* is an endless loop that catches every exception and calls
\* _cleanup_watchers every 5 seconds, and no thread holds Monitor.lock for
\* longer than a dictionary update, so a cleanup that has something to remove
\* is not postponed for ever
SpecReaping == InitShutdown /\ [][NextLive]_vars /\ WF_vars(CleanupWatchers)

\* the frame the scanner gets for a symbol: the candles of the last ScanBars
\* bars the exchange holds, or an empty frame
ScanFetched(symbol, got) ==
    IF got = "rows"
    THEN SubSeq(market[symbol], Max2(1, live.clock - ScanBars + 1), live.clock)
    ELSE <<>>

\* GlobalScanner.run lines 346-370: one scan cycle of the running scanner
ScanCycle ==
    /\ mode = "live"
    /\ live.scanner.pc = "run"
    /\ ~live.scanner.stop_event
    /\ LET found == [s \in Symbols |-> detect_zone(ScanFetched(s, "rows"))]
       IN  \E gots \in [Symbols -> {"rows", "empty"}] :
              LET zones == [s \in Symbols |->
                               IF gots[s] = "rows" THEN found[s]
                               ELSE detect_zone(ScanFetched(s, gots[s]))]
              IN  live' = OfferAll(live, TopCandidates(zones))
    /\ UNCHANGED <<fn_in, fn_out, mode, settings, market, bt>>

\* the monitor with its scanner thread
NextScanner ==
    \/ Tick
    \/ ScanCycle
    \/ CleanupWatchers
    \/ WatcherPoll
    \/ WatcherReadOpen
    \/ WatcherAdmit

SpecScanner == InitLive /\ [][NextScanner]_vars

\* the replay alone
NextBacktest ==
    \/ BacktestEmpty
    \/ BacktestBar

SpecBacktest == InitBacktest /\ [][NextBacktest]_vars

\* ==================================================================== claims

StopReached(in) ==
    \/ in.side = "LONG" /\ in.bar.low <= in.sl_price
    \/ in.side = "SHORT" /\ in.bar.high >= in.sl_price

TargetReached(in, t) ==
    /\ t # None
    /\ \/ in.side = "LONG" /\ in.bar.high >= Val(t)
       \/ in.side = "SHORT" /\ in.bar.low <= Val(t)

\* C3: whenever the bar reaches the stop, evaluate_exit exits with reason SL
\* at the stop price, also when the same bar reaches T1 or T2.
C3_StopBeforeTargets ==
    (fn_out # None /\ StopReached(fn_in)) =>
        Val(fn_out) = [exit_now |-> TRUE, reason |-> "SL",
                       exit_price |-> Some(fn_in.sl_price)]

C3_Witness ==
    /\ fn_out # None
    /\ fn_in.side = "LONG"
    /\ StopReached(fn_in)
    /\ TargetReached(fn_in, fn_in.t1)
    /\ fn_in.bar.low < fn_in.bar.high
    /\ Val(fn_out).reason = "SL"

\* C8: permission is LONG only if every label of the ladder is Bullish and
\* SHORT only if every label is Bearish; a ladder with a Neutral label or
\* with both Bullish and Bearish labels gives NONE.
C8_PermissionUnanimous ==
    fn_out # None =>
        /\ Val(fn_out) = "LONG" => \A tf \in Ladder : fn_in[tf] = "Bullish"
        /\ Val(fn_out) = "SHORT" => \A tf \in Ladder : fn_in[tf] = "Bearish"
        /\ (\E tf \in Ladder : fn_in[tf] = "Neutral") => Val(fn_out) = "NONE"
        /\ (\E tf, tg \in Ladder : fn_in[tf] = "Bullish" /\ fn_in[tg] = "Bearish")
              => Val(fn_out) = "NONE"

C8_Witness ==
    /\ fn_out = Some("NONE")
    /\ Cardinality({tf \in Ladder : fn_in[tf] = "Bullish"}) = 3
    /\ Cardinality({tf \in Ladder : fn_in[tf] = "Neutral"}) = 1

\* the close range of the trailing dwell_bars window of df
CloseRange(df) ==
    MaxClose(TailRows(df, dwell_bars)) - MinClose(TailRows(df, dwell_bars))

\* C6: a returned Zone has width = high_close - low_close, 0 <= width and
\* width <= atr_tight_mult * ATR(14) of the last bar of the full series; a
\* trailing window whose close range exceeds that bound gives no zone.
C6_ZoneWidthBound ==
    fn_out # None =>
        LET df == fn_in
            z == Val(fn_out)
            a == atr(df, Len(df))
        IN  /\ z # None =>
                /\ a # None
                /\ Val(z).width = Val(z).high_close - Val(z).low_close
                /\ Val(z).width >= 0
                /\ Val(z).width * Scale * Scale <= atr_tight_mult * Val(a)
            /\ (a # None /\ CloseRange(df) * Scale * Scale > atr_tight_mult * Val(a))
                  => z = None

C6_Witness ==
    /\ fn_out # None
    /\ Val(fn_out) # None
    /\ Val(Val(fn_out)).width > 0

C6_WitnessRejected ==
    /\ fn_out = Some(None)
    /\ Len(fn_in) >= MinZoneBars
    /\ CloseRange(fn_in) > 0

\* per-side debounce as the claim states it: a touch of the boundary counts
\* only when at least touch_separation_bars rows after the last counted one
RECURSIVE DebouncedTouches(_, _, _, _, _, _)
DebouncedTouches(look, i, top, level, a, acc) ==
    IF i >= Len(look) THEN acc.n
    ELSE LET t == IF top THEN TouchesTop(look[i + 1], level, a)
                  ELSE TouchesBottom(look[i + 1], level, a)
             counted == t /\ i - acc.last >= touch_separation_bars
         IN  DebouncedTouches(look, i + 1, top, level, a,
                 [n |-> acc.n + (IF counted THEN 1 ELSE 0),
                  last |-> IF counted THEN i ELSE acc.last])

\* C7: touches_top and touches_bottom are debounced per side: touches of one
\* boundary closer than touch_separation_bars apart count once.
C7_PerSideDebounce ==
    (fn_out # None /\ Val(fn_out) # None) =>
        LET z == Val(Val(fn_out))
            look == TailRows(fn_in, dwell_bars)
            start == [n |-> 0, last |-> 0 - 10000]
        IN  /\ z.touches_top
                 = DebouncedTouches(look, 0, TRUE, z.high_close, z.atr, start)
            /\ z.touches_bottom
                 = DebouncedTouches(look, 0, FALSE, z.low_close, z.atr, start)

\* C10: fewer than 50 bars, or an undefined ATR at the last bar, gives no
\* zone; a returned zone carries the defined ATR of the last bar.
C10_NoZoneWithoutAtr ==
    fn_out # None =>
        LET df == fn_in
            z == Val(fn_out)
            a == atr(df, Len(df))
        IN  /\ (Len(df) < MinZoneBars \/ a = None) => z = None
            /\ z # None => (a # None /\ Val(z).atr = Val(a) /\ Val(a) > 0)

C10_Witness ==
    /\ fn_out = Some(None)
    /\ atr(fn_in, Len(fn_in)) = None

C10_WitnessShort ==
    /\ fn_out = Some(None)
    /\ atr(fn_in, Len(fn_in)) # None
    /\ Len(fn_in) < MinZoneBars

\* ---------------------------------------------------------------------------
\* C1: at most one position is open per symbol.  The backtest creates a Trade
\* only while open_pos is None, a watcher assigns open_position only while it
\* is None, and the closed trades of the replay have pairwise non-overlapping
\* [entry_time, exit_time] intervals.
NonOverlapping(trades) ==
    \A i, j \in 1..Len(trades) :
        i < j => Val(trades[i].exit_time) < trades[j].entry_time

C1_OpensOnlyWhenFlat ==
    /\ mode = "backtest" =>
          (bt'.open_pos # None /\ bt'.open_pos # bt.open_pos => bt.open_pos = None)
    /\ mode = "live" =>
          \A s \in DOMAIN live.watchers \cap DOMAIN live'.watchers :
              (/\ live'.watchers[s].open_position # None
               /\ live'.watchers[s].open_position # live.watchers[s].open_position)
              => live.watchers[s].open_position = None

C1_OnePositionPerSymbol ==
    /\ [][C1_OpensOnlyWhenFlat]_vars
    /\ [](mode = "backtest" => NonOverlapping(bt.trades))

\* two trades of the replay have been closed one after the other
C1_Witness == mode = "backtest" /\ Len(bt.trades) >= 2

\* ---------------------------------------------------------------------------
\* C2 (as claimed): under every interleaving of the watcher threads, neither
\* the number of watchers holding a position nor max_positions_ref["open"]
\* exceeds max_positions_ref["max"].
Holders == {s \in DOMAIN live.watchers : live.watchers[s].open_position # None}

C2_AdmissionBounded ==
    mode = "live" =>
        /\ live.max_positions_ref.open <= live.max_positions_ref.max
        /\ Cardinality(Holders) <= live.max_positions_ref.max

\* ---------------------------------------------------------------------------
\* C4: while a position is open in the replay, the effective stop passed to
\* evaluate_exit never loosens from one bar to the next: non-decreasing for
\* LONG, non-increasing for SHORT, also when the newly computed swing is less
\* favourable than the trailing value held.
BarsInPosition(b) == FirstBarTime + Len(b.df) - 1 - Val(b.open_pos).entry_time

C4_StopStep ==
    (/\ mode = "backtest"
     /\ bt.open_pos # None
     /\ BarsInPosition(bt) >= 1
     /\ Len(bt'.df) = Len(bt.df) + 1)
    => IF Val(bt.open_pos).side = "LONG"
       THEN Val(bt'.sl_effective) >= Val(bt.sl_effective)
       ELSE Val(bt'.sl_effective) <= Val(bt.sl_effective)

C4_EffectiveStopMonotone == [][C4_StopStep]_vars

\* a LONG position has been carried over a bar on which the latest confirmed
\* swing low lies below the trailing value held
C4_Witness ==
    /\ mode = "backtest" /\ bt.pc = "loop"
    /\ bt.open_pos # None /\ Val(bt.open_pos).side = "LONG"
    /\ BarsInPosition(bt) >= 2
    /\ bt.trailing # None
    /\ LET trailing_new == swing_trailing_stop(bt.df, "LONG")
       IN  trailing_new # None /\ Val(trailing_new) < Val(bt.trailing)

\* ---------------------------------------------------------------------------
\* C5 (as claimed): after a flat consolidation of 210+ bars, a bar that closes
\* beyond the consolidation's band by more than breakout_buffer_frac * ATR,
\* with at least 3 touches on that side and dwell satisfied, opens a LONG
\* Trade at that bar's close with the stop at that bar's low (SHORT: stop at
\* the bar's high).
C5_BreakoutStep ==
    (/\ mode = "backtest"
     /\ settings.breakout_buffer_frac = breakout_buffer_frac
     /\ bt.pc = "loop" /\ bt'.pc = "loop"
     /\ bt.open_pos = None /\ bt.trades = <<>>
     /\ Len(bt.df) >= ScenarioBars
     /\ Len(bt'.df) = Len(bt.df) + 1
     /\ detect_zone(bt.df) # None)
    => LET z == Val(detect_zone(bt.df))
           bar == bt'.df[Len(bt'.df)]
           now == FirstBarTime + Len(bt'.df) - 1
           dwell == z.dwell_bars >= dwell_bars
       IN  /\ BreaksAbove(bar.close, z, z.atr, breakout_buffer_frac) /\ dwell
                => bt'.open_pos = Some(Trade("LONG", now, bar.close, bar.low))
           /\ BreaksBelow(bar.close, z, z.atr, breakout_buffer_frac) /\ dwell
                => bt'.open_pos = Some(Trade("SHORT", now, bar.close, bar.high))

C5_DirectBreakoutEntry == [][C5_BreakoutStep]_vars

\* ---------------------------------------------------------------------------
\* C9: trend permission does not gate entries.  From every reachable state
\* and on the same candles, the next bar of the replay and the next pass of a
\* watcher end in the same state whatever the trend-ladder labels are (same
\* entries, sides, prices, stops, retest bookkeeping); only the trend_aligned
\* flag of the Position may differ.  Two runs over the same candles that
\* differ only in the labels therefore stay in step.
EraseAligned(o) ==
    IF o = None THEN o ELSE Some([Val(o) EXCEPT !.trend_aligned = FALSE])

EraseFlag(w) ==
    [w EXCEPT !.pos = EraseAligned(w.pos),
              !.open_position = EraseAligned(w.open_position)]

C9_TrendDoesNotGate ==
    /\ (mode = "backtest" /\ bt.pc = "loop") =>
          \A bar \in NextBars(bt.df) :
              LET window == Append(bt.df, bar)
                  z == detect_zone(window)
                  a == atr(window, Len(window))
                  run(is_last, perm) ==
                      BacktestIteration(bt, bar, z, a, is_last, perm,
                                        settings.breakout_buffer_frac)
              IN  \A is_last \in BOOLEAN, perm \in Permissions :
                     run(is_last, perm) = run(is_last, "NONE")
    /\ mode = "live" =>
          \A s \in DOMAIN live.watchers :
              live.watchers[s].pc = "loop" =>
                  LET df == FetchRecent(s)
                      z == detect_zone(df)
                      a == atr(df, Len(df))
                      run(perm) ==
                          WatcherLoopBody(live.watchers[s], live.max_positions_ref,
                                          df, z, a, live.clock, perm,
                                          settings.breakout_buffer_frac)
                  IN  \A perm \in Permissions :
                         EraseFlag(run(perm)) = EraseFlag(run("NONE"))

\* a watcher holds a position that it entered against the trend permission
C9_Witness ==
    /\ mode = "live"
    /\ \E s \in DOMAIN live.watchers :
          /\ live.watchers[s].open_position # None
          /\ ~Val(live.watchers[s].open_position).trend_aligned

\* ---------------------------------------------------------------------------

\* the newest bar of symbol s, later than the entry bar, reaches the stop of
\* the position its watcher holds
LiveStopHit(s) ==
    /\ live.watchers[s].open_position # None
    /\ LET pos == Val(live.watchers[s].open_position)
           bar == market[s][live.clock]
       IN  /\ live.clock > pos.time
           /\ IF pos.side = "LONG" THEN bar.low <= pos.sl_price
              ELSE bar.high >= pos.sl_price

\* the watcher of s after a pass of its loop that fetches the recent candles
PassOnRows(s) ==
    LET df == FetchRecent(s)
    IN  WatcherPass(live.watchers[s], live.max_positions_ref, "rows", df,
                    detect_zone(df), atr(df, Len(df)), live.clock, "NONE",
                    settings.breakout_buffer_frac)

\* C11 (as claimed): a watcher in position whose pass polls a bar that reaches
\* the position's stop closes the position: after the pass open_position is
\* cleared.
C11_LiveStopCloses ==
    mode = "live" =>
        \A s \in DOMAIN live.watchers :
            (/\ live.watchers[s].pc = "loop"
             /\ ~live.watchers[s].stop_event
             /\ LiveStopHit(s))
            => PassOnRows(s).open_position = None

\* ---------------------------------------------------------------------------
\* C12 (as claimed): after a position exit no new entry happens for the
\* symbol during the cooldown bars: in the replay every entry that follows an
\* exit is at least position_exit_cooldown_bars bars later, and a watcher
\* inside its exit cooldown leaves its pass as it entered it.
EntryTimes(b) ==
    {b.trades[i].entry_time : i \in 1..Len(b.trades)}
      \cup (IF b.open_pos = None THEN {} ELSE {Val(b.open_pos).entry_time})

C12_CooldownAfterExit ==
    /\ mode = "backtest" =>
          \A i \in 1..Len(bt.trades), e \in EntryTimes(bt) :
              e > Val(bt.trades[i].exit_time)
                => e - Val(bt.trades[i].exit_time) >= position_exit_cooldown_bars
    /\ mode = "live" =>
          \A s \in DOMAIN live.watchers :
              (/\ live.watchers[s].pc = "loop"
               /\ ~live.watchers[s].stop_event
               /\ live.watchers[s].position_exit_time # None
               /\ live.clock - Val(live.watchers[s].position_exit_time)
                    < position_exit_cooldown_bars)
              => PassOnRows(s) = live.watchers[s]

\* ---------------------------------------------------------------------------
\* C13 (as claimed): a replay that has left its bar loop has terminated
\* normally with no position left open, and every recorded Trade has its exit
\* fields set with a reason among SL, T1, T2 and EOD.
ExitReasons == {"SL", "T1", "T2", "EOD"}

C13_EodClose ==
    (mode = "backtest" /\ bt.pc # "loop") =>
        /\ bt.pc = "done"
        /\ bt.open_pos = None
        /\ \A i \in 1..Len(bt.trades) :
              /\ bt.trades[i].exit_time # None
              /\ bt.trades[i].exit_price # None
              /\ bt.trades[i].exit_reason \in ExitReasons

\* ---------------------------------------------------------------------------
\* C14: every closed trade of the replay with risk = |entry - stop| > 0 has
\* MFE and MAE equal to the favourable and the adverse distance from the
\* entry price to the highest high / lowest low of the bars from the entry
\* bar through the exit bar, divided by the risk (in hundredths of R); with
\* risk 0 both stay 0.
BarsOfTrade(b, t) ==
    {b.df[k] : k \in (t.entry_time - FirstBarTime + 1)
                       .. (Val(t.exit_time) - FirstBarTime + 1)}

HighestHigh(bars) == MaxOver({bar.high : bar \in bars})

LowestLow(bars) == MinOver({bar.low : bar \in bars})

ExcursionsAsSpecified(b, t) ==
    LET risk == Abs(t.entry_price - t.sl_price)
        above == ((HighestHigh(BarsOfTrade(b, t)) - t.entry_price) * Scale) \div risk
        below == ((t.entry_price - LowestLow(BarsOfTrade(b, t))) * Scale) \div risk
    IN  IF t.side = "LONG" THEN t.mfe = above /\ t.mae = below
        ELSE t.mfe = below /\ t.mae = above

C14_ExcursionsInR ==
    mode = "backtest" =>
        \A i \in 1..Len(bt.trades) :
            LET t == bt.trades[i]
                flat == [t EXCEPT !.sl_price = t.entry_price, !.mfe = 0, !.mae = 0]
                bars == BarsOfTrade(bt, t)
                unscored == WithExcursions(flat, HighestHigh(bars), LowestLow(bars))
            IN  /\ Abs(t.entry_price - t.sl_price) > 0 => ExcursionsAsSpecified(bt, t)
                /\ unscored.mfe = 0 /\ unscored.mae = 0

\* a SHORT trade was closed with a positive risk and a positive adverse
\* excursion
C14_Witness ==
    /\ mode = "backtest"
    /\ \E i \in 1..Len(bt.trades) :
          /\ bt.trades[i].side = "SHORT"
          /\ Abs(bt.trades[i].entry_price - bt.trades[i].sl_price) > 0
          /\ bt.trades[i].mae > 0

\* ---------------------------------------------------------------------------
\* C15 (as claimed): when _execute_trade computes a quantity <= 0 and returns
\* without adding the trade to the dashboard, the entry is aborted: the
\* watcher has no open_position afterwards and max_positions_ref["open"] has
\* the value it had before the signal.
C15_AbortStep ==
    mode = "live" =>
        \A s \in DOMAIN live.watchers :
            (/\ live.watchers[s].pc = "incr"
             /\ live'.watchers[s].pc = "loop"
             /\ live'.watchers[s].dashboard_trades
                  = live.watchers[s].dashboard_trades)
            => /\ live'.watchers[s].open_position = None
               /\ live'.max_positions_ref.open = Val(live.watchers[s].read_open)

C15_SizingAbortsEntry == [][C15_AbortStep]_vars

\* ---------------------------------------------------------------------------
\* C16: an exception raised inside a pass of a watcher's loop is caught at the
\* end of the pass: the step that logs it leaves every watcher, the raising
\* one included, running as it was, and does not end the monitor.
C16_ExceptionStep ==
    (mode = "live" /\ live'.exceptions_logged > live.exceptions_logged) =>
        /\ live'.watchers = live.watchers
        /\ live'.threads = live.threads
        /\ live'.pc = live.pc
        /\ \E s \in DOMAIN live'.watchers : live'.watchers[s].pc = "loop"

C16_ExceptionCaught == [][C16_ExceptionStep]_vars

\* an exception has been logged and the watchers of both symbols are running
C16_Witness ==
    /\ mode = "live"
    /\ live.exceptions_logged > 0
    /\ DOMAIN live.watchers = Symbols
    /\ \A s \in Symbols : live.watchers[s].pc # "exited"

\* ---------------------------------------------------------------------------
\* C17 (as claimed): get_klines repeats a failing fetch, up to MaxAttempts
\* attempts: it returns the frame of the first attempt whose fetch does not
\* fail, and when every attempt fails the error reaches the caller after the
\* last one.
FetchFails(r) == r \in {"error", "malformed"}

C17_FetchRetried ==
    (mode = "fn" /\ fn_in \in KlinesInputs /\ fn_out # None) =>
        LET out == Val(fn_out)
            good == {n \in 1..MaxAttempts : ~FetchFails(fn_in[n])}
        IN  IF good = {}
            THEN out.attempts = MaxAttempts /\ out.raised
            ELSE /\ out.attempts = MinOver(good)
                 /\ ~out.raised
                 /\ out.frame = KlinesAttempt(fn_in[MinOver(good)]).frame

\* ---------------------------------------------------------------------------
\* C18 (as claimed): a pass of a running watcher whose fetch returns an empty
\* frame, or a frame with fewer bars than detect_zone needs, leaves the
\* watcher at the head of its loop: the thread does not end.
PassOnFetch(s, got) ==
    LET df == Fetched(s, got)
    IN  WatcherPass(live.watchers[s], live.max_positions_ref, got, df,
                    detect_zone(df), atr(df, Len(df)), live.clock, "NONE",
                    settings.breakout_buffer_frac)

C18_InsufficientDataSkipped ==
    mode = "live" =>
        \A s \in DOMAIN live.watchers :
            (live.watchers[s].pc = "loop" /\ ~live.watchers[s].stop_event)
            => /\ PassOnFetch(s, "empty").pc = "loop"
               /\ PassOnFetch(s, "short").pc = "loop"

\* ---------------------------------------------------------------------------
\* C19 (as claimed): after Monitor.stop every watcher thread ends at the head
\* of its next pass, the ones registered by the scanner during the stop
\* included: once the monitor is stopped and the scanner thread has ended,
\* every watcher thread that still runs has its stop event set.
C19_StopEndsWatchers ==
    (mode = "live" /\ live.pc = "stopped" /\ live.scanner.pc = "done") =>
        \A s \in DOMAIN live.watchers :
            live.watchers[s].pc = "exited" \/ live.watchers[s].stop_event

\* ---------------------------------------------------------------------------
\* C20: between the steps that hold Monitor.lock the keys of Monitor.watchers
\* are Monitor.candidate_symbols, and under every interleaving of scanner
\* callbacks, cleanups and watcher passes no symbol has more than one running
\* SymbolWatcher thread, the running thread being the registered one.
C20_PoolConsistent ==
    mode = "live" =>
        /\ DOMAIN live.watchers = live.candidate_symbols
        /\ \A s \in Symbols :
              /\ live.threads[s] <= 1
              /\ live.threads[s] = 1 <=>
                    (s \in DOMAIN live.watchers /\ live.watchers[s].pc # "exited")

\* the thread of one symbol has ended and awaits its removal from the pool
\* while the thread of the other symbol runs
C20_Witness ==
    /\ mode = "live"
    /\ \E s, r \in DOMAIN live.watchers :
          /\ live.watchers[s].pc = "exited" /\ live.threads[s] = 0
          /\ live.watchers[r].pc # "exited" /\ live.threads[r] = 1

\* ---------------------------------------------------------------------- C21
\* C21: over n bars swing_highs and swing_lows report bar i only if
\* left <= i <= n - 1 - right, and appending a bar removes or changes no pivot
\* already reported: the pivots of the shorter series are those of the longer
\* one at bars <= n - 1 - right. The swing trailing stop of a series is
\* therefore the extreme of a pivot at least right bars before its last bar.

\* the bars of a series of n rows at which a pivot may be reported
Confirmed(n) == PivotSpan..(n - 1 - PivotSpan)

C21_Step ==
    LET n == Len(fn_in)
        before == Val(fn_out)
        after == Val(fn_out')
        df == fn_in'
    IN  /\ after.highs \subseteq Confirmed(n + 1)
        /\ after.lows \subseteq Confirmed(n + 1)
        /\ before.highs = after.highs \cap Confirmed(n)
        /\ before.lows = after.lows \cap Confirmed(n)
        /\ after.trail_long =
              IF after.lows = {} THEN None
              ELSE Some(df[MaxOver(after.lows) + 1].low)
        /\ after.trail_short =
              IF after.highs = {} THEN None
              ELSE Some(df[MaxOver(after.highs) + 1].high)

C21_PivotLag == [][C21_Step]_vars

\* a swing high and a swing low were reported and the series has grown past
\* the bar that confirmed them, with a later bar as high as the swing high
C21_Witness ==
    /\ mode = "fn" /\ fn_out # None /\ fn_in \in Seq(PivotBars)
    /\ \E i \in Val(fn_out).highs :
          /\ Len(fn_in) > i + PivotSpan + 1
          /\ fn_in[Len(fn_in)].high >= fn_in[i + 1].high
    /\ Val(fn_out).lows # {}
    /\ Val(fn_out).trail_long # None

\* ---------------------------------------------------------------------- C22
\* C22: resample_ohlcv yields exactly one row per complete right-closed,
\* right-labelled bucket that holds bars, with high = max, low = min and
\* close = last of the bucket's bars; a bucket the input does not cover
\* completely is absent from the output. (The bars of the model carry no open
\* and no volume; the rows are compared on high, low and close.)

\* the rows of the buckets of n bars that the series df, whose first row has
\* timestamp t0, covers completely
CompleteRows(df, t0, n) ==
    LET first == (t0 + n - 2) \div n + 1
        last == (t0 + Len(df) - 1) \div n
        rows(b) == {k \in 1..Len(df) : BucketOf(t0 + k - 1, n) = b}
    IN  [j \in 1..(last - first + 1) |->
            LET ks == rows(first + j - 1)
            IN  [high |-> MaxOver({df[k].high : k \in ks}),
                 low |-> MinOver({df[k].low : k \in ks}),
                 close |-> df[MaxOver(ks)].close]]

C22_CompleteBucketsOnly ==
    (mode = "fn" /\ fn_out # None /\ fn_in \in ResampleInputs) =>
        Val(fn_out) = CompleteRows(fn_in.df, fn_in.t0, BarsPerBucket("1h"))

\* ---------------------------------------------------------------------- C23
\* C23: atr(df, 14) is undefined at the first period rows (bars 0 .. period-1)
\* and defined at every later row; ema(series, period) is undefined at every
\* row at which fewer than period observations are available; an undefined
\* value is missing, never zero. (Row k of the model is bar k - 1.)
C23_AtrWarmup ==
    (mode = "fn" /\ fn_out # None /\ fn_in \in AtrInputs) =>
        \A k \in 1..Len(fn_in) :
            /\ k - 1 <= AtrPeriod - 1 => Val(fn_out).atr[k] = None
            /\ k - 1 > AtrPeriod - 1 => Val(fn_out).atr[k] # None
            /\ k < AtrPeriod => Val(fn_out).ema[k] = None

\* ---------------------------------------------------------------------- C24
\* C24: when the bar does not reach the stop, evaluate_exit exits with reason
\* T2 at T2 if T2 is defined and reached (LONG: high >= T2, SHORT: low <= T2),
\* else with reason T1 at T1 if T1 is defined and reached, else it reports no
\* exit; an undefined target never triggers.
C24_TargetPriority ==
    (mode = "fn" /\ fn_out # None /\ fn_in \in ExitInputs
        /\ ~StopReached(fn_in)) =>
        Val(fn_out) =
            IF TargetReached(fn_in, fn_in.t2)
              THEN [exit_now |-> TRUE, reason |-> "T2", exit_price |-> fn_in.t2]
            ELSE IF TargetReached(fn_in, fn_in.t1)
              THEN [exit_now |-> TRUE, reason |-> "T1", exit_price |-> fn_in.t1]
            ELSE [exit_now |-> FALSE, reason |-> "None", exit_price |-> None]

\* a SHORT bar that stays below the stop and reaches both targets, which
\* differ: the exit is at T2
C24_Witness ==
    /\ mode = "fn" /\ fn_out # None /\ fn_in \in ExitInputs
    /\ fn_in.side = "SHORT"
    /\ ~StopReached(fn_in)
    /\ TargetReached(fn_in, fn_in.t1)
    /\ TargetReached(fn_in, fn_in.t2)
    /\ fn_in.t1 # fn_in.t2
    /\ Val(fn_out).reason = "T2"

\* ---------------------------------------------------------------------- C25
\* C25: at every bar of an open backtest position the effective stop equals,
\* for LONG, the maximum of sl_price and of the swing_trailing_stop values
\* computed on the windows from the entry bar through the current bar (for
\* SHORT the minimum): a swing confirmed after the entry that is more
\* favourable than the current stop always tightens it.

\* the swing trailing stops of the windows of b.df that end at the entry bar
\* of the open position and at each bar after it
TrailingValues(b) ==
    LET pos == Val(b.open_pos)
        entry == pos.entry_time - FirstBarTime + 1
        at(j) == swing_trailing_stop(SubSeq(b.df, 1, j), pos.side)
    IN  {Val(at(j)) : j \in {i \in entry..Len(b.df) : at(i) # None}}

C25_EffectiveStopIsBest ==
    (mode = "backtest" /\ bt.pc = "loop" /\ bt.open_pos # None
        /\ BarsInPosition(bt) >= 1) =>
        LET pos == Val(bt.open_pos)
            values == {pos.sl_price} \cup TrailingValues(bt)
        IN  bt.sl_effective =
                Some(IF pos.side = "LONG" THEN MaxOver(values)
                     ELSE MinOver(values))

\* ---------------------------------------------------------------------- C26
\* C26: nearest_targets_from_htfs returns as T1 the nearest and as T2 the
\* next-nearest distinct swing level of the 1h, 4h and 1D resamples strictly
\* beyond the latest close (LONG: close < T1 < T2 among swing highs, SHORT:
\* close > T1 > T2 among swing lows); T1 is undefined when no level lies
\* beyond the close and T2 when fewer than two do, so T2 is defined only if
\* T1 is.  Checked on the window of every entry of the replay, where the
\* targets are taken (also of the entries that stop the run because a target
\* is undefined).

\* the swing levels of the three resamples on the side of the targets
SwingLevels(df, side) ==
    UNION {LET d == resample_ohlcv(df, FirstBarTime, tf)
           IN  IF side = "LONG"
               THEN {d[i + 1].high : i \in swing_highs(d, PivotSpan, PivotSpan)}
               ELSE {d[i + 1].low : i \in swing_lows(d, PivotSpan, PivotSpan)}
           : tf \in {"1h", "4h", "1D"}}

\* p is strictly nearer to the close than q on the side of the targets
Nearer(side, p, q) == IF side = "LONG" THEN p < q ELSE p > q

JustEntered(b) == b.open_pos # None /\ BarsInPosition(b) = 0

C26_NearestTargets ==
    (mode = "backtest" /\ JustEntered(bt)) =>
        LET pos == Val(bt.open_pos)
            close == bt.df[Len(bt.df)].close
            beyond == {p \in SwingLevels(bt.df, pos.side) :
                          Nearer(pos.side, close, p)}
        IN  /\ bt.t1 = None <=> beyond = {}
            /\ bt.t2 = None <=> Cardinality(beyond) < 2
            /\ bt.t2 # None => bt.t1 # None
            /\ bt.t1 # None =>
                  /\ Val(bt.t1) \in beyond
                  /\ \A p \in beyond : ~Nearer(pos.side, p, Val(bt.t1))
            /\ bt.t2 # None =>
                  /\ Val(bt.t2) \in beyond
                  /\ Nearer(pos.side, Val(bt.t1), Val(bt.t2))
                  /\ \A p \in beyond \ {Val(bt.t1)} :
                        ~Nearer(pos.side, p, Val(bt.t2))

\* an entry with both targets, and an entry with T1 only
C26_Witness ==
    /\ mode = "backtest" /\ JustEntered(bt)
    /\ bt.t1 # None /\ bt.t2 # None
    /\ Val(bt.open_pos).side = "SHORT"

C26_WitnessOneLevel ==
    /\ mode = "backtest" /\ JustEntered(bt)
    /\ bt.t1 # None /\ bt.t2 = None

\* ---------------------------------------------------------------------- C27
\* C27: the targets t1 and t2 of a backtest trade are chosen once, at the
\* entry bar, and no later bar changes them while the trade is open: a bar
\* that leaves the trade open changes only the trailing stop, the effective
\* stop and the water marks; the bar that closes the trade clears the targets.
C27_Step ==
    (/\ mode = "backtest"
     /\ bt.pc = "loop" /\ bt.open_pos # None
     /\ bt'.pc = "loop" /\ Len(bt'.df) = Len(bt.df) + 1)
    => IF bt'.open_pos # None
       THEN bt' = [bt EXCEPT !.df = bt'.df, !.trailing = bt'.trailing,
                             !.sl_effective = bt'.sl_effective,
                             !.high_water = bt'.high_water,
                             !.low_water = bt'.low_water]
       ELSE bt'.t1 = None /\ bt'.t2 = None

C27_TargetsFixedAtEntry == [][C27_Step]_vars

\* a trade has been open over two bars or more, its targets are defined, and
\* the trailing stop is no longer the one taken at the entry bar
C27_Witness ==
    /\ mode = "backtest" /\ bt.pc = "loop"
    /\ bt.open_pos # None /\ BarsInPosition(bt) >= 2
    /\ bt.t1 # None /\ bt.t2 # None
    /\ LET pos == Val(bt.open_pos)
           entry == SubSeq(bt.df, 1, pos.entry_time - FirstBarTime + 1)
       IN  bt.trailing # swing_trailing_stop(entry, pos.side)

\* a trade has been closed and the targets are undefined again
C27_WitnessClosed ==
    /\ mode = "backtest" /\ bt.pc = "loop"
    /\ Len(bt.trades) > 0 /\ bt.open_pos = None
    /\ bt.t1 = None /\ bt.t2 = None

RetestEntry(o) ==
    /\ o.pos # None
    /\ ~(BreaksAbove(o.bar.close, o.zone, o.zone.atr, breakout_buffer_frac)
         /\ o.zone.dwell_bars >= dwell_bars)
    /\ ~(BreaksBelow(o.bar.close, o.zone, o.zone.atr, breakout_buffer_frac)
         /\ o.zone.dwell_bars >= dwell_bars)

C29_RetestEntryConfirmed ==
    (mode = "fn" /\ fn_in \in 1..RetestTicks /\ fn_out # None
        /\ RetestEntry(Val(fn_out))) =>
        LET o == Val(fn_out)
            pos == Val(o.pos)
        IN  /\ o.pending_time # None
            /\ fn_in <= Val(o.pending_time) + retest_window_bars
            /\ o.pending_side = Some(pos.side)
            /\ o.bar.low <= o.zone.high_close /\ o.bar.high >= o.zone.low_close
            /\ IF pos.side = "LONG"
               THEN /\ CloseAbove(o.bar.close, o.zone, o.zone.atr,
                                  breakout_buffer_frac)
                    /\ pos.sl_price = o.bar.low
               ELSE /\ CloseBelow(o.bar.close, o.zone, o.zone.atr,
                                  breakout_buffer_frac)
                    /\ pos.sl_price = o.bar.high
            /\ pos.entry_price = o.bar.close /\ pos.time = fn_in
            /\ o.w.no_dwell_break_time = None
            /\ o.w.awaiting_retest_side = None

\* a SHORT retest entry two bars or more after the breakout was recorded
C29_Witness ==
    /\ mode = "fn" /\ fn_in \in 1..RetestTicks /\ fn_out # None
    /\ RetestEntry(Val(fn_out))
    /\ Val(Val(fn_out).pos).side = "SHORT"
    /\ fn_in >= Val(Val(fn_out).pending_time) + 2

\* ---------------------------------------------------------------------- C30
\* C30: total_touches is debounced across both sides jointly: a bar of the
\* window counts if it touches either boundary and no counted bar lies fewer
\* than touch_separation_bars bars before it, so any two counted bars are at
\* least touch_separation_bars apart and
\* total_touches <= ceil(dwell_bars / touch_separation_bars).

\* the rows (0-based) of look that touch the top or the bottom of zone z
TouchedRows(look, z) ==
    {i \in 0..(Len(look) - 1) :
        \/ TouchesTop(look[i + 1], z.high_close, z.atr)
        \/ TouchesBottom(look[i + 1], z.low_close, z.atr)}

\* the rows counted: the touching rows with no counted row fewer than
\* touch_separation_bars rows before them
CountedRows(look, z) ==
    CHOOSE C \in SUBSET TouchedRows(look, z) :
        \A i \in TouchedRows(look, z) :
            i \in C <=> ~\E j \in C : j < i /\ i - j < touch_separation_bars

C30_JointDebounce ==
    (mode = "fn" /\ fn_in \in ZoneInputs /\ fn_out # None
        /\ Val(fn_out) # None) =>
        LET z == Val(Val(fn_out))
            C == CountedRows(TailRows(fn_in, dwell_bars), z)
        IN  /\ z.total_touches = Cardinality(C)
            /\ \A i, j \in C : i < j => j - i >= touch_separation_bars
            /\ z.total_touches
                  <= (dwell_bars + touch_separation_bars - 1)
                        \div touch_separation_bars

\* a zone whose bars all touch a boundary, the top and the bottom both being
\* touched: the bound is reached and touching bars are left uncounted
C30_Witness ==
    /\ mode = "fn" /\ fn_in \in ZoneInputs /\ fn_out # None /\ Val(fn_out) # None
    /\ LET z == Val(Val(fn_out))
       IN  /\ Cardinality(TouchedRows(TailRows(fn_in, dwell_bars), z)) = dwell_bars
           /\ z.touches_top > 0 /\ z.touches_bottom > 0
           /\ z.touches_top < dwell_bars
           /\ z.total_touches
                 = (dwell_bars + touch_separation_bars - 1)
                      \div touch_separation_bars

\* ---------------------------------------------------------------------- C31
\* the rows _label_series receives for timeframe tf
LabelledRows(tf) ==
    IF tf # "5m" THEN resample_ohlcv(fn_in.df, fn_in.t0, tf) ELSE fn_in.df

\* C31: a timeframe whose series is empty or has fewer than 210 rows is
\* labelled Neutral; a rising series gets no Bearish label and a falling one
\* no Bullish label; over the four-timeframe ladder a 5-minute series of up
\* to 300 bars gives the permission NONE.
C31_ShortSeriesNeutral ==
    (mode = "fn" /\ fn_in \in TrendInputs /\ fn_out # None) =>
        LET out == Val(fn_out)
        IN  /\ \A tf \in fn_in.ladder :
                   Len(LabelledRows(tf)) < 210 => out.labels[tf] = "Neutral"
            /\ fn_in.step > 0 => \A tf \in fn_in.ladder : out.labels[tf] # "Bearish"
            /\ fn_in.step < 0 => \A tf \in fn_in.ladder : out.labels[tf] # "Bullish"
            /\ (fn_in.ladder = Ladder /\ Len(fn_in.df) <= 300) => out.perm = "NONE"

\* a rising series one row short of 210, both averages defined, is Neutral
C31_Witness ==
    /\ mode = "fn" /\ fn_in \in TrendInputs /\ fn_out # None
    /\ fn_in.ladder = {"5m"} /\ fn_in.step > 0 /\ Len(fn_in.df) = 209
    /\ Val(fn_out).labels["5m"] = "Neutral"

\* the rising 300-bar series of the test: four Neutral labels, permission NONE
C31_WitnessLadder ==
    /\ mode = "fn" /\ fn_in \in TrendInputs /\ fn_out # None
    /\ fn_in.ladder = Ladder /\ fn_in.step > 0 /\ Len(fn_in.df) = 300
    /\ Len(LabelledRows("1h")) >= 25
    /\ Val(fn_out).perm = "NONE"

\* with 210 rows the same series is labelled by its averages
C31_WitnessLabelled ==
    /\ mode = "fn" /\ fn_in \in TrendInputs /\ fn_out # None
    /\ fn_in.ladder = {"5m"} /\ fn_in.step > 0 /\ Len(fn_in.df) = 210
    /\ Val(fn_out).labels["5m"] = "Bullish"

\* ---------------------------------------------------------------------- C32
\* the watcher registered for s has ended
Ended(s) == s \in DOMAIN live.watchers /\ ~is_alive(live.watchers[s])

Reaped(s) == s \notin DOMAIN live.watchers /\ s \notin live.candidate_symbols

\* no step removes a watcher whose thread is alive, and a step that removes
\* one takes the symbol out of candidate_symbols as well
C32_Step ==
    \A s \in DOMAIN live.watchers :
        /\ is_alive(live.watchers[s]) => s \in DOMAIN live'.watchers
        /\ s \notin DOMAIN live'.watchers => s \notin live'.candidate_symbols

\* C32: with a fair maintenance loop a watcher whose thread has ended is
\* eventually out of both Monitor.watchers and Monitor.candidate_symbols;
\* once it is, _on_candidate registers and starts a new watcher for the
\* symbol; a watcher whose thread is alive is never removed.
C32_Reaping ==
    /\ \A s \in Symbols : Ended(s) ~> Reaped(s)
    /\ [](\A s \in Symbols :
            (mode = "live" /\ Reaped(s)) =>
                LET m == on_candidate(live, s)
                IN  /\ s \in DOMAIN m.watchers /\ s \in m.candidate_symbols
                    /\ m.watchers[s] = SymbolWatcher(s)
                    /\ m.threads[s] = live.threads[s] + 1)
    /\ [][C32_Step]_vars

\* a watcher has run and raised, a watcher has ended, and the pool is empty
\* again
C32_Witness ==
    /\ mode = "live"
    /\ live.exceptions_logged > 0
    /\ live.clock > RecentBars
    /\ DOMAIN live.watchers = {} /\ live.candidate_symbols = {}

\* ---------------------------------------------------------------------- C33
\* watcher s found an entry signal in this step: line 285 stamps
\* last_breakout_time with the time of the bar
SignalStep(s) ==
    /\ s \in DOMAIN live.watchers /\ s \in DOMAIN live'.watchers
    /\ live.watchers[s].pc = "loop"
    /\ live'.watchers[s].last_breakout_time = Some(live.clock)
    /\ live.watchers[s].last_breakout_time # Some(live.clock)

C33_Step ==
    \A s \in Symbols :
        (mode = "live" /\ SignalStep(s)
            /\ live.max_positions_ref.open >= live.max_positions_ref.max) =>
            LET w == live.watchers[s]
                w2 == live'.watchers[s]
            IN  /\ w2.pc = "loop"
                /\ w2.open_position = None /\ w2.pos = None
                /\ w2.no_dwell_break_time = None /\ w2.awaiting_retest_side = None
                /\ w2.orders = w.orders /\ w2.dashboard_trades = w.dashboard_trades
                /\ live'.max_positions_ref = live.max_positions_ref

\* watcher s holds nothing but the time of a signal it found
Dropped(s) ==
    /\ s \in DOMAIN live.watchers
    /\ live.watchers[s].pc = "loop"
    /\ live.watchers[s].last_breakout_time # None
    /\ live.watchers[s].open_position = None

\* the next pass of watcher s if a slot were free, whatever the fetch returns
\* and whatever the trend
FreeSlotPasses(s) ==
    {WatcherPass(live.watchers[s], [open |-> 0, max |-> max_positions], got,
                 Fetched(s, got), detect_zone(Fetched(s, got)),
                 atr(Fetched(s, got), Len(Fetched(s, got))), live.clock, perm,
                 settings.breakout_buffer_frac) :
        got \in FetchOutcomes, perm \in Permissions}

\* C33: a signal found while the shared counter is at the cap is dropped:
\* open_position stays None, the counter and the orders are unchanged,
\* nothing of the signal but its time is kept, and a later pass of the
\* watcher does not enter on it even if a slot is free.
C33_DroppedAtCap ==
    /\ [][C33_Step]_vars
    /\ [](\A s \in Symbols :
            (mode = "live" /\ Dropped(s)) =>
                \A w2 \in FreeSlotPasses(s) :
                    w2.pc # "admitted" /\ w2.open_position = None)

\* one watcher holds the only slot, the other has just dropped a signal
C33_Witness ==
    /\ mode = "live"
    /\ \E s, t \in DOMAIN live.watchers :
          /\ s # t
          /\ live.watchers[t].open_position # None
          /\ live.max_positions_ref.open >= live.max_positions_ref.max
          /\ Dropped(s)
          /\ live.watchers[s].last_breakout_time = Some(live.clock)
          /\ live.watchers[s].orders = 0

\* ---------------------------------------------------------------------- C34
\* a pass of watcher w on frame df reaches detect_zone (line 250): the frame
\* is not empty, no position is open and no cooldown is running
ReachesDetect(w, df, now) ==
    /\ ~w.stop_event
    /\ Len(df) # 0
    /\ NoOpenPosition(w.open_position)
    /\ ~(/\ w.position_exit_time # None
         /\ BarsSince(df, now, Val(w.position_exit_time))
              < position_exit_cooldown_bars)
    /\ ~(/\ w.last_breakout_time # None
         /\ BarsSince(df, now, Val(w.last_breakout_time))
              < zone_recovery_cooldown_bars)

\* the zone _check_breakout is called with (line 282) on a pass that
\* detected z
EvaluatedZone(w, z) ==
    Val(RefreshCandidate([w EXCEPT !.last_breakout_time = None,
                                   !.position_exit_time = None], z).candidate_zone)

SameBandAndTouches(y, z) ==
    /\ y.low_close = z.low_close /\ y.high_close = z.high_close
    /\ y.touches_top = z.touches_top /\ y.touches_bottom = z.touches_bottom
    /\ y.total_touches = z.total_touches

\* C34: at every breakout evaluation of a watcher the candidate zone has the
\* band and the touch counts of the zone just detected on the fetched frame.
C34_CandidateIsLastZone ==
    mode = "live" =>
        \A s \in DOMAIN live.watchers :
            LET w == live.watchers[s]
                df == FetchRecent(s)
                z == detect_zone(df)
            IN  (w.pc = "loop" /\ ReachesDetect(w, df, live.clock) /\ z # None)
                    => SameBandAndTouches(EvaluatedZone(w, z), Val(z))

\* what line 271 does keep equal: end_idx and width
C34_SameEndAndWidth ==
    mode = "live" =>
        \A s \in DOMAIN live.watchers :
            LET w == live.watchers[s]
                df == FetchRecent(s)
                z == detect_zone(df)
            IN  (w.pc = "loop" /\ ReachesDetect(w, df, live.clock) /\ z # None)
                    => /\ EvaluatedZone(w, z).end_idx = Val(z).end_idx
                       /\ EvaluatedZone(w, z).width = Val(z).width

\* ---------------------------------------------------------------------- C35
\* C35: the close of the last bar of df lies within the band of the Zone
\* detect_zone(df) returns; in the replay, where the zone is detected on the
\* window that ends at the current bar, with a buffer >= 0 neither breakout
\* condition holds of the current bar and no Trade is ever opened.
C35_LastCloseInBand ==
    (mode = "backtest" /\ Len(bt.df) > 0) =>
        LET z == detect_zone(bt.df)
            a == atr(bt.df, Len(bt.df))
            close == bt.df[Len(bt.df)].close
        IN  /\ z # None =>
                /\ Val(z).low_close <= close /\ close <= Val(z).high_close
                /\ settings.breakout_buffer_frac >= 0 =>
                      /\ ~CloseAbove(close, Val(z), Val(a), settings.breakout_buffer_frac)
                      /\ ~CloseBelow(close, Val(z), Val(a), settings.breakout_buffer_frac)
            /\ settings.breakout_buffer_frac >= 0 =>
                  bt.open_pos = None /\ bt.trades = <<>>

\* the current bar closes above the band of the zone of the bars before it,
\* which the top was touched 3 times in, and belongs to the zone of its own
\* window; nothing is entered
C35_Witness ==
    /\ mode = "backtest" /\ bt.pc = "loop"
    /\ settings.breakout_buffer_frac >= 0
    /\ Len(bt.df) > ScenarioBars
    /\ LET before == SubSeq(bt.df, 1, Len(bt.df) - 1)
           y == detect_zone(before)
           z == detect_zone(bt.df)
       IN  /\ y # None /\ z # None
           /\ BreaksAbove(bt.df[Len(bt.df)].close, Val(y), Val(y).atr,
                          settings.breakout_buffer_frac)
           /\ Val(z).high_close = bt.df[Len(bt.df)].close
    /\ bt.open_pos = None /\ bt.trades = <<>>

\* ---------------------------------------------------------------------- C36
\* the zones detect_zone returns on the frames a watcher of s can fetch now
FetchedZones(s) ==
    {detect_zone(Fetched(s, got)) : got \in {"rows", "short"}} \ {None}

\* C36: every Zone of detect_zone has dwell_bars equal to the dwell_bars
\* setting and spans end_idx - start_idx + 1 = dwell_bars rows, so the dwell
\* test of the breakout check passes and no watcher ever has
\* no_dwell_break_time or awaiting_retest_side set.
C36_NeverAwaitingRetest ==
    mode = "live" =>
        /\ \A s \in Symbols : \A z \in FetchedZones(s) :
              /\ Val(z).dwell_bars = dwell_bars
              /\ Val(z).end_idx - Val(z).start_idx + 1 = dwell_bars
        /\ \A s \in DOMAIN live.watchers :
              /\ live.watchers[s].no_dwell_break_time = None
              /\ live.watchers[s].awaiting_retest_side = None
              /\ live.watchers[s].candidate_zone # None =>
                    Val(live.watchers[s].candidate_zone).dwell_bars >= dwell_bars

\* a watcher found a breakout of its candidate zone and nothing is pending
C36_Witness ==
    /\ mode = "live"
    /\ \E s \in DOMAIN live.watchers :
          LET w == live.watchers[s]
          IN  /\ w.last_breakout_time # None
              /\ w.candidate_zone # None
              /\ w.no_dwell_break_time = None /\ w.awaiting_retest_side = None

\* ---------------------------------------------------------------------- C37
\* C37: over candles with low <= close <= high every Zone of detect_zone has
\* 1 <= touches_top <= dwell_bars, 1 <= touches_bottom <= dwell_bars and
\* 1 <= total_touches <= touches_top + touches_bottom.
C37_TouchBounds ==
    (mode = "fn" /\ fn_in \in ZoneInputs /\ fn_out # None /\ Val(fn_out) # None) =>
        LET z == Val(Val(fn_out))
        IN  /\ \A k \in 1..Len(fn_in) :
                  fn_in[k].low <= fn_in[k].close /\ fn_in[k].close <= fn_in[k].high
            /\ 1 <= z.touches_top /\ z.touches_top <= dwell_bars
            /\ 1 <= z.touches_bottom /\ z.touches_bottom <= dwell_bars
            /\ 1 <= z.total_touches
            /\ z.total_touches <= z.touches_top + z.touches_bottom

\* a zone whose bottom is touched by one bar only, the one with the lowest
\* close, and whose top by every bar
C37_Witness ==
    /\ mode = "fn" /\ fn_in \in ZoneInputs /\ fn_out # None /\ Val(fn_out) # None
    /\ Val(Val(fn_out)).touches_bottom = 1
    /\ Val(Val(fn_out)).touches_top = dwell_bars
    /\ Val(Val(fn_out)).width > 0

\* a zone of equal closes: every bar touches both boundaries
C37_WitnessFull ==
    /\ mode = "fn" /\ fn_in \in ZoneInputs /\ fn_out # None /\ Val(fn_out) # None
    /\ Val(Val(fn_out)).touches_top = dwell_bars
    /\ Val(Val(fn_out)).touches_bottom = dwell_bars
    /\ Val(Val(fn_out)).total_touches < dwell_bars

\* ---------------------------------------------------------------------- C38
\* C38: in every reachable state of the monitor the shared counter
\* max_positions_ref["open"] is >= 0 and equals the number of watchers whose
\* open_position is set.
C38_CounterMatchesPositions ==
    mode = "live" =>
        /\ live.max_positions_ref.open >= 0
        /\ live.max_positions_ref.open = Cardinality(Holders)

\* the part that holds: the counter is never negative and never above the
\* number of watchers that hold a position
C38_CounterAtMostPositions ==
    mode = "live" =>
        /\ live.max_positions_ref.open >= 0
        /\ live.max_positions_ref.open <= Cardinality(Holders)

\* ---------------------------------------------------------------------- C39
\* no step ends or removes a watcher that holds a position unless its stop
\* flag is set
C39_Step ==
    \A s \in DOMAIN live.watchers :
        LET w == live.watchers[s]
        IN  (w.open_position # None /\ is_alive(w) /\ ~w.stop_event) =>
                /\ s \in DOMAIN live'.watchers
                /\ live'.watchers[s].stop_event \/ is_alive(live'.watchers[s])

\* polls up to the end of the extended cooldown of line 256 after the
\* current bar
LaterPolls == 0..(2 * zone_recovery_cooldown_bars)

\* watcher w after a pass that polls, later bars after the current one, what
\* the fetch of kind got returns for s
LaterPass(w, s, got, later) ==
    LET df == Fetched(s, got)
    IN  WatcherPass(w, live.max_positions_ref, got, df, detect_zone(df),
                    atr(df, Len(df)), live.clock + later, "NONE",
                    settings.breakout_buffer_frac)

\* C39: a watcher that holds a position does not end on its own: whatever
\* its fetch returns and however long after its entry, a pass leaves it at
\* the head of its loop unless its stop flag is set; no watcher that has
\* ended holds a position without its stop flag set, and no step ends or
\* removes such a watcher.
C39_HolderEndsOnlyByStop ==
    /\ [](mode = "live" =>
            \A s \in Holders :
                LET w == live.watchers[s]
                IN  /\ (w.pc = "loop" /\ ~w.stop_event) =>
                          \A got \in FetchOutcomes, later \in LaterPolls :
                              is_alive(LaterPass(w, s, got, later))
                    /\ ~is_alive(w) => w.stop_event)
    /\ [][C39_Step]_vars

\* a watcher in position at the head of its loop, on a frame and at a time
\* where the same watcher without the position would end (zone vanished)
C39_Witness ==
    /\ mode = "live" /\ live.pc = "on"
    /\ \E s \in Holders :
          LET w == live.watchers[s]
          IN  /\ w.pc = "loop" /\ ~w.stop_event
              /\ \E later \in LaterPolls :
                    /\ is_alive(LaterPass(w, s, "short", later))
                    /\ ~is_alive(LaterPass([w EXCEPT !.open_position = None], s,
                                           "short", later))

\* after Monitor.stop a watcher in position has ended through its stop flag
C39_WitnessStopped ==
    /\ mode = "live" /\ live.pc = "stopped"
    /\ \E s \in Holders : ~is_alive(live.watchers[s]) /\ live.watchers[s].stop_event

\* ---------------------------------------------------------------------- C40
\* C40: the number of symbols in Monitor.watchers never exceeds
\* max_monitor_pool_size, across any number of scan cycles.
C40_PoolBounded ==
    mode = "live" =>
        Cardinality(DOMAIN live.watchers) <= max_monitor_pool_size

\* what one scan does keep: it offers at most max_monitor_pool_size symbols,
\* so a step adds at most that many watchers
C40_ScanStep ==
    Cardinality(DOMAIN live'.watchers \ DOMAIN live.watchers)
        <= max_monitor_pool_size

C40_ScanOffersBounded == [][C40_ScanStep]_vars


====
